---- MODULE Spec2Model ----
(***************************************************************************)
(* Model of the cube-unfolding page (src/src/pages/Cube3DPage.tsx): the    *)
(* hinge table, the per-face FaceState array, the unfold history, the      *)
(* requestAnimationFrame callbacks started by animateFace and the 850 ms   *)
(* timer of handleFoldToCube; and of the pure functions of the net         *)
(* classifier (getCanonicalShapeKey, isValidNetPlacement), which the page  *)
(* itself runs on no state of its own and which are driven here from       *)
(* enumerated inputs.  The component CubeNetExerciseFinal                  *)
(* (src/src/App.tsx) is a second page with a state of its own, held in     *)
(* the variable app.                                                       *)
(*                                                                         *)
(* Lengths are in units of HALF_FACE, animProgress is in permille          *)
(* (0..1000).  The FaceState fields gridX/gridY are written as 0 by every  *)
(* handler of this page ("Not used in new system") and are left out.       *)
(***************************************************************************)
EXTENDS Integers, Sequences, FiniteSets, TLC

(***************************************************************************)
(* Bounds of the model.                                                    *)
(***************************************************************************)
\* number of animation frames that fall into the 800 ms of one animateFace
FramesPerAnim == 2
\* number of user operations in a behaviour of SpecRace
MaxOps == 3
\* number of faces the user unfolds at a time in a behaviour of Spec
MaxUnfolded == 3
\* number of faces the user unfolds at a time in a behaviour of SpecPose
MaxChain == 2
\* number of snapshots on the undo stack of CubeNetExerciseFinal (SpecApp)
MaxHistory == 3
\* side of the window of grid cells the arrangements of SpecKey are drawn from
KeyWindow == 3
\* length of the translations, along x and along y, applied in SpecKey
KeyShift == 1
\* number of faces placed in a behaviour of SpecPlacement
MaxPlaced == 3

(***************************************************************************)
(* Cube Geometry Basis.                                                    *)
(***************************************************************************)
TOTAL_FACES == 6
Faces == 0 .. (TOTAL_FACES - 1)
DIRECTIONS == <<"UP", "DOWN", "LEFT", "RIGHT">>
Directions == {DIRECTIONS[i] : i \in 1..Len(DIRECTIONS)}
\* the null of FaceState.parentFace and of FaceState.direction
null == -1
nullDir == "null"

\* cosine and sine of q quarter turns
CosQ(q) == CASE q = 0 -> 1 [] q = 2 -> -1 [] OTHER -> 0
SinQ(q) == CASE q = 1 -> 1 [] q = -1 -> -1 [] OTHER -> 0
RotX(q, v) == << v[1], v[2] * CosQ(q) - v[3] * SinQ(q), v[2] * SinQ(q) + v[3] * CosQ(q) >>
RotY(q, v) == << v[1] * CosQ(q) + v[3] * SinQ(q), v[2], v[3] * CosQ(q) - v[1] * SinQ(q) >>
\* Euler rotation (XYZ order) of a vector, angles in quarter turns
ApplyEuler(rot, v) == RotX(rot[1], RotY(rot[2], v))

\* pos in units of HALF_FACE, rot in quarter turns
FOLDED_POSITIONS ==
  [f \in Faces |->
     CASE f = 0 -> [pos |-> <<0, 0, 1>>,  rot |-> <<0, 0, 0>>]
       [] f = 1 -> [pos |-> <<0, 0, -1>>, rot |-> <<0, 2, 0>>]
       [] f = 2 -> [pos |-> <<0, 1, 0>>,  rot |-> <<-1, 0, 0>>]
       [] f = 3 -> [pos |-> <<0, -1, 0>>, rot |-> <<1, 0, 0>>]
       [] f = 4 -> [pos |-> <<1, 0, 0>>,  rot |-> <<0, 1, 0>>]
       [] f = 5 -> [pos |-> <<-1, 0, 0>>, rot |-> <<0, -1, 0>>]]

FACE_BASE_INFO ==
  [f \in Faces |->
     [center |-> FOLDED_POSITIONS[f].pos,
      normal |-> ApplyEuler(FOLDED_POSITIONS[f].rot, <<0, 0, 1>>),
      up     |-> ApplyEuler(FOLDED_POSITIONS[f].rot, <<0, 1, 0>>),
      right  |-> ApplyEuler(FOLDED_POSITIONS[f].rot, <<1, 0, 0>>)]]

Negate(v) == << -v[1], -v[2], -v[3] >>

\* the face whose outward normal is vec, or null (undefined in the source)
NORMAL_TO_FACE(vec) ==
  IF \E f \in Faces : FACE_BASE_INFO[f].normal = vec
  THEN CHOOSE f \in Faces : FACE_BASE_INFO[f].normal = vec
  ELSE null

\* getDirectionVector whose LEFT is the right-hand side of the face
getDirectionVectorLeftIsRight(info, direction) ==
  CASE direction = "UP"   -> info.up
    [] direction = "DOWN" -> Negate(info.up)
    [] OTHER              -> info.right

getDirectionVector(info, direction) ==
  CASE direction = "UP"   -> info.up
    [] direction = "DOWN" -> Negate(info.up)
    [] direction = "LEFT" -> Negate(info.right)
    [] OTHER              -> info.right

(***************************************************************************)
(* Rigid transforms: a rotation r (three rows) and a translation t.        *)
(***************************************************************************)
Dot(a, b) == a[1] * b[1] + a[2] * b[2] + a[3] * b[3]
Cross(a, b) ==
  << a[2] * b[3] - a[3] * b[2], a[3] * b[1] - a[1] * b[3], a[1] * b[2] - a[2] * b[1] >>
VecAdd(a, b) == << a[1] + b[1], a[2] + b[2], a[3] + b[3] >>
Scale(k, a) == << k * a[1], k * a[2], k * a[3] >>
Column(r, j) == << r[1][j], r[2][j], r[3][j] >>
Transpose(r) == << Column(r, 1), Column(r, 2), Column(r, 3) >>
\* Vector3.applyMatrix3
ApplyMatrix3(r, v) == << Dot(r[1], v), Dot(r[2], v), Dot(r[3], v) >>
Mat3Row(a, b, i) == << Dot(a[i], Column(b, 1)), Dot(a[i], Column(b, 2)), Dot(a[i], Column(b, 3)) >>
Mat3Mul(a, b) == << Mat3Row(a, b, 1), Mat3Row(a, b, 2), Mat3Row(a, b, 3) >>
\* Vector3.applyMatrix4
ApplyMatrix4(m, v) == VecAdd(ApplyMatrix3(m.r, v), m.t)
\* Matrix4.multiply
MatMul(a, b) == [r |-> Mat3Mul(a.r, b.r), t |-> VecAdd(ApplyMatrix3(a.r, b.t), a.t)]
\* Matrix4.invert, of a rigid transform
buildParentInverseMatrix(m) ==
  [r |-> Transpose(m.r), t |-> Negate(ApplyMatrix3(Transpose(m.r), m.t))]
matrixToMatrix3(m) == m.r
Identity3 == << <<1, 0, 0>>, <<0, 1, 0>>, <<0, 0, 1>> >>
makeTranslation(v) == [r |-> Identity3, t |-> v]
\* the rotation by q quarter turns about the unit axis a (Rodrigues formula)
RotateAbout(a, q, v) ==
  VecAdd(VecAdd(Scale(CosQ(q), v), Scale(SinQ(q), Cross(a, v))),
         Scale((1 - CosQ(q)) * Dot(a, v), a))
\* Quaternion.setFromAxisAngle followed by Matrix4.makeRotationFromQuaternion
makeRotationAxis(a, q) ==
  [r |-> Transpose(<< RotateAbout(a, q, <<1, 0, 0>>),
                      RotateAbout(a, q, <<0, 1, 0>>),
                      RotateAbout(a, q, <<0, 0, 1>>) >>),
   t |-> <<0, 0, 0>>]

\* Matrix4.compose of the centre and the quaternion of a face
BASE_MATRICES ==
  [f \in Faces |->
     [r |-> Transpose(<< FACE_BASE_INFO[f].right, FACE_BASE_INFO[f].up,
                         FACE_BASE_INFO[f].normal >>),
      t |-> FACE_BASE_INFO[f].center]]

\* getAxisVector with the two axes exchanged
getAxisVectorSwapped(info, direction) ==
  CASE direction \in {"UP", "DOWN"} -> info.up
    [] OTHER -> info.right

getAxisVector(info, direction) ==
  CASE direction \in {"UP", "DOWN"} -> info.right
    [] OTHER -> info.up

(***************************************************************************)
(* Hinge table.  An entry whose parentFaceIndex is null stands for a       *)
(* missing entry.                                                          *)
(***************************************************************************)
HINGE_CONFIG ==
  [f \in Faces |->
     [d \in Directions |->
        LET info == FACE_BASE_INFO[f]
            directionVector == getDirectionVector(info, d)
            parentFaceIndex == NORMAL_TO_FACE(directionVector)
        IN  IF parentFaceIndex = null
            THEN [parentFaceIndex |-> null]
            ELSE
              LET parentInverse == buildParentInverseMatrix(BASE_MATRICES[parentFaceIndex])
                  parentInverseMat3 == matrixToMatrix3(parentInverse)
                  \* setLength(HALF_FACE): one unit of length
                  pivotWorld == VecAdd(info.center, directionVector)
              IN  [parentFaceIndex |-> parentFaceIndex,
                   pivot |-> ApplyMatrix4(parentInverse, pivotWorld),
                   axis |-> ApplyMatrix3(parentInverseMat3, getAxisVector(info, d)),
                   connection |-> MatMul(parentInverse, BASE_MATRICES[f]),
                   childNormal |-> ApplyMatrix3(parentInverseMat3, info.normal)]]]

HasHinge(f, d) == HINGE_CONFIG[f][d].parentFaceIndex # null

PARENT_NORMAL_REFERENCE == <<0, 0, 1>>

\* buildChildMatrix that does not translate back from the pivot
buildChildMatrixNoPivotBack(hinge, quarter, sign) ==
  LET rotationMatrix == makeRotationAxis(hinge.axis, sign * quarter)
      pivotTranslate == makeTranslation(hinge.pivot)
      hingeMatrixLocal == MatMul(pivotTranslate, rotationMatrix)
  IN  [childMatrix |-> MatMul(hingeMatrixLocal, hinge.connection),
       rotatedNormal |-> ApplyMatrix3(matrixToMatrix3(rotationMatrix), hinge.childNormal)]

\* sign is 1 or -1, quarter the hinge angle in quarter turns
buildChildMatrix(hinge, quarter, sign) ==
  LET rotationMatrix == makeRotationAxis(hinge.axis, sign * quarter)
      pivotTranslate == makeTranslation(hinge.pivot)
      pivotTranslateBack == makeTranslation(Negate(hinge.pivot))
      hingeMatrixLocal == MatMul(MatMul(pivotTranslate, rotationMatrix), pivotTranslateBack)
  IN  [childMatrix |-> MatMul(hingeMatrixLocal, hinge.connection),
       rotatedNormal |-> ApplyMatrix3(matrixToMatrix3(rotationMatrix), hinge.childNormal)]

\* (Math.PI / 2) * animProgress in quarter turns.  The pose is modelled for a
\* hinge at rest and for a hinge that is open (animProgress >= 0.999, which
\* is taken as 1); the pose of a hinge part-way open is not modelled and no
\* property reads it.
HingeQuarter(animProgress) ==
  CASE animProgress = 0 -> 0
    [] animProgress >= 999 -> 1

\* computeWorldMatrix that always turns the hinge in the positive sense
RECURSIVE computeWorldMatrixAlwaysPositive(_, _)
computeWorldMatrixAlwaysPositive(faceIndex, fs) ==
  LET state == fs[faceIndex]
  IN  IF ~state.unfolded \/ state.parentFace = null \/ state.direction = nullDir
      THEN BASE_MATRICES[faceIndex]
      ELSE
        LET hinge == HINGE_CONFIG[faceIndex][state.direction]
        IN  IF hinge.parentFaceIndex = null
            THEN BASE_MATRICES[faceIndex]
            ELSE
              LET parentMatrix == computeWorldMatrixAlwaysPositive(hinge.parentFaceIndex, fs)
                  quarter == HingeQuarter(state.animProgress)
                  positive == buildChildMatrix(hinge, quarter, 1)
              IN  MatMul(parentMatrix, positive.childMatrix)

RECURSIVE computeWorldMatrix(_, _)
computeWorldMatrix(faceIndex, fs) ==
  LET state == fs[faceIndex]
  IN  IF ~state.unfolded \/ state.parentFace = null \/ state.direction = nullDir
      THEN BASE_MATRICES[faceIndex]
      ELSE
        LET hinge == HINGE_CONFIG[faceIndex][state.direction]
        IN  IF hinge.parentFaceIndex = null
            THEN BASE_MATRICES[faceIndex]
            ELSE
              LET parentMatrix == computeWorldMatrix(hinge.parentFaceIndex, fs)
                  quarter == HingeQuarter(state.animProgress)
                  positive == buildChildMatrix(hinge, quarter, 1)
                  negative == buildChildMatrix(hinge, quarter, -1)
                  chosen == IF Dot(positive.rotatedNormal, PARENT_NORMAL_REFERENCE) >=
                               Dot(negative.rotatedNormal, PARENT_NORMAL_REFERENCE)
                            THEN positive ELSE negative
              IN  MatMul(parentMatrix, chosen.childMatrix)

computeAllWorldMatrices(fs) == [idx \in Faces |-> computeWorldMatrix(idx, fs)]

getNormalFromMatrix(matrix) == ApplyMatrix3(matrixToMatrix3(matrix), <<0, 0, 1>>)

\* the vectors are unit vectors along the axes, so that normalize() and the
\* 1e-6 threshold on the squared length are exact
getPlaneAxesFromMatrix(matrix) ==
  LET normal == getNormalFromMatrix(matrix)
      right == ApplyMatrix3(matrixToMatrix3(matrix), <<1, 0, 0>>)
      projectedRight == VecAdd(right, Scale(-Dot(right, normal), normal))
      safeRight == IF Dot(projectedRight, projectedRight) = 0
                   THEN Cross(<<0, 1, 0>>, normal)
                   ELSE projectedRight
  IN  [normal |-> normal, right |-> safeRight, up |-> Cross(normal, safeRight)]

(***************************************************************************)
(* State.                                                                  *)
(***************************************************************************)
VARIABLES
  faceStates,     \* FaceState of every face
  unfoldHistory,  \* order of the unfolded faces
  anims,          \* pending animate callbacks, in registration order
  timers,         \* pending setTimeout callbacks of handleFoldToCube (ages)
  lastOp,         \* the handler that ran last and what it was applied to
  ops,            \* number of user operations so far (SpecRace only)
  gridCells,      \* SpecKey: the grid cells handed to getCanonicalShapeKey
  movedCells,     \* SpecKey: the same cells after a transform of the plane
  placement,      \* SpecPlacement: the currentFaceStates of isValidNetPlacement
  app             \* the state of CubeNetExerciseFinal

pageVars == <<faceStates, unfoldHistory, anims, timers, lastOp, ops>>
netVars == <<gridCells, movedCells, placement>>
vars == <<faceStates, unfoldHistory, anims, timers, lastOp, ops,
          gridCells, movedCells, placement, app>>

FoldedState ==
  [unfolded |-> FALSE, animProgress |-> 0, direction |-> nullDir, parentFace |-> null]

InitialFaceStates == [f \in Faces |-> FoldedState]

\* the part of the page state the handlers read and write
Cur == [faceStates |-> faceStates, unfoldHistory |-> unfoldHistory,
        anims |-> anims, timers |-> timers]

UnfoldedFaces(fs) == {f \in Faces : fs[f].unfolded}
UnfoldedCount(fs) == Cardinality(UnfoldedFaces(fs))

\* the page after construction
PageInit ==
  /\ faceStates = InitialFaceStates
  /\ unfoldHistory = <<>>
  /\ anims = <<>>
  /\ timers = <<>>
  /\ lastOp = [op |-> "init", face |-> null, n |-> 0]
  /\ ops = 0

\* no input is handed to the functions of the net classifier
NetIdle ==
  /\ gridCells = {}
  /\ movedCells = {}
  /\ placement = <<>>

\* the face state CubeNetExerciseFinal gives every face at construction
AppFoldedState ==
  [unfolded |-> FALSE, hingeDir |-> nullDir, anim |-> 0, gridX |-> 0, gridY |-> 0]

\* CubeNetExerciseFinal after construction and after resetAll; attachments is
\* the Map as the sequence of its entries in insertion order
AppInitialState ==
  [faceStates |-> [f \in Faces |-> AppFoldedState],
   attachments |-> <<>>,
   history |-> <<>>,
   discovered |-> {},
   detectedNet |-> null,
   warning |-> "null"]

AppInit == app = AppInitialState

Init == PageInit /\ NetIdle /\ AppInit

(***************************************************************************)
(* Unfold Graph queries.                                                   *)
(***************************************************************************)
\* walk of the parentFace chain from candidateParent, looking for faceIndex
RECURSIVE createsCycleFrom(_, _, _)
createsCycleFrom(fs, current, faceIndex) ==
  IF current = null THEN FALSE
  ELSE IF current = faceIndex THEN TRUE
  ELSE createsCycleFrom(fs, fs[current].parentFace, faceIndex)

\* createsCycle looking at the candidate parent and its parent only
createsCycleShallow(fs, candidateParent, faceIndex) ==
  \/ candidateParent = faceIndex
  \/ candidateParent # null /\ fs[candidateParent].parentFace = faceIndex

\* createsCycle that takes every candidate parent that has a parent of its
\* own for a cycle
createsCycleAnyChain(fs, candidateParent, faceIndex) ==
  /\ candidateParent # null
  /\ (candidateParent = faceIndex \/ fs[candidateParent].parentFace # null)

createsCycle(fs, candidateParent, faceIndex) ==
  createsCycleFrom(fs, candidateParent, faceIndex)

\* getPossibleDirections without the cycle test
getPossibleDirectionsAnyHinge(fs, faceIndex) ==
  IF fs[faceIndex].unfolded THEN {}
  ELSE {d \in Directions : HasHinge(faceIndex, d)}

getPossibleDirections(fs, faceIndex) ==
  IF fs[faceIndex].unfolded THEN {}
  ELSE {d \in Directions :
          /\ HasHinge(faceIndex, d)
          /\ ~createsCycle(fs, HINGE_CONFIG[faceIndex][d].parentFaceIndex, faceIndex)}

(***************************************************************************)
(* Cube face relationships.                                                *)
(***************************************************************************)
OPPOSITE_FACES ==
  [f \in Faces |->
     CASE f = 0 -> 1 [] f = 1 -> 0 [] f = 2 -> 3 [] f = 3 -> 2 [] f = 4 -> 5 [] f = 5 -> 4]

\* ADJACENT_ON_CUBE whose entry of Front lists Back in the place of Top
ADJACENT_ON_CUBEFrontListsBack ==
  [f \in Faces |->
     CASE f = 0 -> {1, 3, 4, 5}
       [] f = 1 -> {2, 3, 4, 5}
       [] f \in {2, 3} -> {0, 1, 4, 5}
       [] f \in {4, 5} -> {0, 1, 2, 3}]

ADJACENT_ON_CUBE ==
  [f \in Faces |->
     CASE f \in {0, 1} -> {2, 3, 4, 5}
       [] f \in {2, 3} -> {0, 1, 4, 5}
       [] f \in {4, 5} -> {0, 1, 2, 3}]

(***************************************************************************)
(* Net Classifier: canonical shape key and completion.                     *)
(*                                                                         *)
(* A grid cell is a pair <<x, y>>.  A key "x0,y0;x1,y1;..." is modelled as *)
(* the sequence <<x0, y0, x1, y1, ...>>: the coordinates of a shifted      *)
(* layout of six cells are single digits, so that the order of the strings *)
(* is the lexicographic order of these sequences.                          *)
(***************************************************************************)
VALID_SHAPE_CANONICALS ==
  { <<0,0, 0,1, 0,2, 0,3, 1,0, 2,0>>,
    <<0,0, 0,1, 0,2, 1,0, 1,2, 2,1>>,
    <<0,0, 0,1, 0,2, 1,1, 2,1, 3,1>>,
    <<0,0, 0,1, 0,2, 1,2, 1,3, 2,3>>,
    <<0,0, 0,1, 1,0, 1,1, 1,2, 2,2>>,
    <<0,0, 0,1, 1,1, 1,2, 1,3, 2,2>>,
    <<0,0, 0,1, 1,1, 1,2, 1,3, 2,3>>,
    <<0,0, 0,1, 1,1, 1,2, 2,2, 2,3>>,
    <<0,1, 1,0, 1,1, 1,2, 1,3, 2,1>> }

\* the key that a result without canonicalKey carries
NoKey == <<>>

\* the reference net layouts (CubeNetExercisePage.tsx)
CUBE_NETS ==
  <<
     << [x |-> 0, y |-> -1, face |-> 0], [x |-> -1, y |-> 0, face |-> 1], [x |-> 0, y |-> 0, face |-> 2],
        [x |-> 1, y |-> 0, face |-> 3], [x |-> 0, y |-> 1, face |-> 4], [x |-> 0, y |-> 2, face |-> 5] >>,
     << [x |-> 0, y |-> -1, face |-> 0], [x |-> -1, y |-> 0, face |-> 1], [x |-> 0, y |-> 0, face |-> 2],
        [x |-> 1, y |-> 0, face |-> 3], [x |-> 2, y |-> 0, face |-> 4], [x |-> 0, y |-> 1, face |-> 5] >>,
     << [x |-> 0, y |-> 0, face |-> 0], [x |-> 1, y |-> 0, face |-> 1], [x |-> 2, y |-> 0, face |-> 2],
        [x |-> 0, y |-> 1, face |-> 3], [x |-> 0, y |-> 2, face |-> 4], [x |-> 1, y |-> 2, face |-> 5] >>,
     << [x |-> 0, y |-> 0, face |-> 0], [x |-> 1, y |-> 0, face |-> 1], [x |-> 0, y |-> 1, face |-> 2],
        [x |-> 0, y |-> 2, face |-> 3], [x |-> 1, y |-> 2, face |-> 4], [x |-> 2, y |-> 2, face |-> 5] >>,
     << [x |-> 0, y |-> 0, face |-> 0], [x |-> 1, y |-> 0, face |-> 1], [x |-> 1, y |-> 1, face |-> 2],
        [x |-> 2, y |-> 1, face |-> 3], [x |-> 2, y |-> 2, face |-> 4], [x |-> 3, y |-> 2, face |-> 5] >>,
     << [x |-> 0, y |-> 0, face |-> 0], [x |-> 1, y |-> 0, face |-> 1], [x |-> 2, y |-> 0, face |-> 2],
        [x |-> 2, y |-> 1, face |-> 3], [x |-> 1, y |-> 1, face |-> 4], [x |-> 0, y |-> 1, face |-> 5] >>,
     << [x |-> 0, y |-> 0, face |-> 0], [x |-> 1, y |-> 0, face |-> 1], [x |-> 2, y |-> 0, face |-> 2],
        [x |-> 3, y |-> 0, face |-> 3], [x |-> 1, y |-> 1, face |-> 4], [x |-> 1, y |-> -1, face |-> 5] >>,
     << [x |-> 0, y |-> -1, face |-> 0], [x |-> -1, y |-> 0, face |-> 1], [x |-> 0, y |-> 0, face |-> 2],
        [x |-> 1, y |-> 0, face |-> 3], [x |-> 0, y |-> 1, face |-> 4], [x |-> 1, y |-> 1, face |-> 5] >>,
     << [x |-> 0, y |-> 0, face |-> 0], [x |-> 1, y |-> 0, face |-> 1], [x |-> 0, y |-> 1, face |-> 2],
        [x |-> 1, y |-> 1, face |-> 3], [x |-> 0, y |-> 2, face |-> 4], [x |-> -1, y |-> 1, face |-> 5] >>,
     << [x |-> 0, y |-> 0, face |-> 0], [x |-> 1, y |-> 0, face |-> 1], [x |-> 1, y |-> 1, face |-> 2],
        [x |-> 1, y |-> 2, face |-> 3], [x |-> 2, y |-> 2, face |-> 4], [x |-> 2, y |-> 1, face |-> 5] >>,
     << [x |-> 0, y |-> 0, face |-> 0], [x |-> 1, y |-> 0, face |-> 1], [x |-> 1, y |-> 1, face |-> 2],
        [x |-> 0, y |-> 1, face |-> 3], [x |-> -1, y |-> 1, face |-> 4], [x |-> -1, y |-> 0, face |-> 5] >>
  >>

\* the grid cells of a reference net
NetCells(net) == {<<net[i].x, net[i].y>> : i \in 1..Len(net)}

MinOf(set) == CHOOSE x \in set : \A y \in set : x <= y

CellLess(a, b) == a[1] < b[1] \/ (a[1] = b[1] /\ a[2] < b[2])

\* sort((a, b) => a[0] - b[0] || a[1] - b[1]) followed by the join into a key
RECURSIVE KeyOfCells(_)
KeyOfCells(cells) ==
  IF cells = {} THEN <<>>
  ELSE LET m == CHOOSE c \in cells : \A o \in cells : o = c \/ CellLess(c, o)
       IN  <<m[1], m[2]>> \o KeyOfCells(cells \ {m})

\* translation of the layout to minimum x = 0 and minimum y = 0, and its key
ShiftedKey(cells) ==
  LET minX == MinOf({c[1] : c \in cells})
      minY == MinOf({c[2] : c \in cells})
  IN  KeyOfCells({<<c[1] - minX, c[2] - minY>> : c \in cells})

\* order of two keys of the same length
RECURSIVE KeyLess(_, _)
KeyLess(a, b) ==
  IF a = <<>> \/ b = <<>> THEN FALSE
  ELSE IF Head(a) # Head(b) THEN Head(a) < Head(b)
  ELSE KeyLess(Tail(a), Tail(b))

\* the layout in the rot-th pass of the inner loop: every pass transforms the
\* layout the pass before it has left
RotatedCells(ps, rot) ==
  LET r1 == {<<c[2], -c[1]>> : c \in ps}
      r2 == {<< -c[1], -c[2]>> : c \in r1}
      r3 == {<< -c[2], c[1]>> : c \in r2}
  IN  CASE rot = 0 -> ps [] rot = 1 -> r1 [] rot = 2 -> r2 [] OTHER -> r3

\* getCanonicalShapeKey without the pass over the flipped layout
getCanonicalShapeKeyNoFlip(positions) ==
  LET canons == {ShiftedKey(RotatedCells(positions, rot)) : rot \in 0..3}
  IN  CHOOSE k \in canons : \A o \in canons : o = k \/ KeyLess(k, o)

getCanonicalShapeKey(positions) ==
  LET flipped(flip) == IF flip = 1 THEN {<<c[1], -c[2]>> : c \in positions} ELSE positions
      canons == {ShiftedKey(RotatedCells(flipped(flip), rot)) : flip \in 0..1, rot \in 0..3}
  IN  CHOOSE k \in canons : \A o \in canons : o = k \/ KeyLess(k, o)

\* the part of evaluateNetCompletion that follows the tests of the face
\* states: planarity, grid alignment, distinct cells and the canonical key
classifyFlatLayout(matrices) ==
  LET incomplete == [isComplete |-> FALSE, canonicalKey |-> NoKey]
      axes == getPlaneAxesFromMatrix(matrices[0])
      planar == \A f \in Faces :
                  LET dot == Dot(getNormalFromMatrix(matrices[f]), axes.normal)
                  IN  dot = 1 \/ dot = -1
      u(f) == Dot(matrices[f].t, axes.right)
      v(f) == Dot(matrices[f].t, axes.up)
      \* FACE_SIZE is two units of length and the tolerance a fifth of a
      \* unit: a centre is on the grid when u and v are even
      onGrid == \A f \in Faces : u(f) % 2 = 0 /\ v(f) % 2 = 0
      cell(f) == <<u(f) \div 2, v(f) \div 2>>
      gridMap == {cell(f) : f \in Faces}
  IN  IF ~planar THEN incomplete
      ELSE IF ~onGrid THEN incomplete
      ELSE IF Cardinality(gridMap) # TOTAL_FACES THEN incomplete
      ELSE IF getCanonicalShapeKey(gridMap) \notin VALID_SHAPE_CANONICALS THEN incomplete
      ELSE [isComplete |-> TRUE, canonicalKey |-> getCanonicalShapeKey(gridMap)]

\* evaluateNetCompletion whose filter keeps the unfolded faces
evaluateNetCompletionCountsUnfolded(fs, matrices) ==
  LET unfoldFaces == {f \in Faces : fs[f].unfolded}
  IN
  IF Cardinality(unfoldFaces) = 1
  THEN [isComplete |-> TRUE, canonicalKey |-> NoKey]
  ELSE IF \E f \in Faces :
            ~fs[f].unfolded \/ fs[f].animProgress < 999 \/ fs[f].direction = nullDir
  THEN [isComplete |-> FALSE, canonicalKey |-> NoKey]
  ELSE classifyFlatLayout(matrices)

evaluateNetCompletion(fs, matrices) ==
  LET unfoldFaces == {f \in Faces : ~fs[f].unfolded}
  IN
  IF Cardinality(unfoldFaces) = 1
  THEN [isComplete |-> TRUE, canonicalKey |-> NoKey]
  ELSE IF \E f \in Faces :
            ~fs[f].unfolded \/ fs[f].animProgress < 999 \/ fs[f].direction = nullDir
  THEN [isComplete |-> FALSE, canonicalKey |-> NoKey]
  ELSE classifyFlatLayout(matrices)

(***************************************************************************)
(* Net Classifier: incremental legality of a placement.                    *)
(*                                                                         *)
(* currentFaceStates is a function from face indices to records with the   *)
(* fields isValidNetPlacement reads (unfolded, gridX, gridY); a gridMap is  *)
(* a function from cells <<x, y>> to face indices.                         *)
(***************************************************************************)
AbsOf(n) == IF n < 0 THEN -n ELSE n

\* the map built by the forEach of isValidNetPlacement: a later face index
\* replaces an earlier one at the same position
gridMapOf(currentFaceStates) ==
  LET unfoldedIdx == {i \in DOMAIN currentFaceStates : currentFaceStates[i].unfolded}
      pos(i) == <<currentFaceStates[i].gridX, currentFaceStates[i].gridY>>
  IN  [c \in {pos(i) : i \in unfoldedIdx} |->
         CHOOSE i \in unfoldedIdx :
           pos(i) = c /\ \A j \in unfoldedIdx : pos(j) = c => j <= i]

\* wouldCreateOverlap with the knight's move test only
wouldCreateOverlapKnightOnly(gridMap, newFaceIndex, newGridX, newGridY) ==
  LET oppositeFace == OPPOSITE_FACES[newFaceIndex]
  IN  \E c \in DOMAIN gridMap :
        /\ gridMap[c] = oppositeFace
        /\ LET dx == AbsOf(c[1] - newGridX)
               dy == AbsOf(c[2] - newGridY)
           IN  dx + dy = 3 /\ (dx = 1 \/ dy = 1)

wouldCreateOverlap(gridMap, newFaceIndex, newGridX, newGridY) ==
  LET oppositeFace == OPPOSITE_FACES[newFaceIndex]
  IN  \* Check 1: opposite faces cannot be adjacent
      \/ \E c \in DOMAIN gridMap :
           /\ gridMap[c] = oppositeFace
           /\ AbsOf(c[1] - newGridX) + AbsOf(c[2] - newGridY) = 1
      \* Check 2: knight's move distance
      \/ \E c \in DOMAIN gridMap :
           /\ gridMap[c] = oppositeFace
           /\ LET dx == AbsOf(c[1] - newGridX)
                  dy == AbsOf(c[2] - newGridY)
              IN  dx + dy = 3 /\ (dx = 1 \/ dy = 1)

validateDiagonalConfigurations(gridMap, centerX, centerY) ==
  LET diagonals == { << <<centerX - 1, centerY - 1>>, <<centerX + 1, centerY + 1>> >>,
                     << <<centerX - 1, centerY + 1>>, <<centerX + 1, centerY - 1>> >> }
  IN  \A diagonal \in diagonals :
        ~ /\ diagonal[1] \in DOMAIN gridMap
          /\ diagonal[2] \in DOMAIN gridMap
          /\ OPPOSITE_FACES[gridMap[diagonal[1]]] = gridMap[diagonal[2]]

\* the test applied to the faces of one line; k is the coordinate along it
lineIsValid(gridMap, line, k) ==
  LET firstPos == CHOOSE c \in line : \A o \in line : c[k] <= o[k]
      lastPos == CHOOSE c \in line : \A o \in line : o[k] <= c[k]
  IN  /\ ~(Cardinality(line) >= 4 /\ OPPOSITE_FACES[gridMap[firstPos]] = gridMap[lastPos])
      /\ ~(Cardinality(line) > 4)

validateStraightLineConfigurations(gridMap, newFaceIndex, newGridX, newGridY) ==
  LET horizontalFaces == {c \in DOMAIN gridMap : c[2] = newGridY}
      verticalFaces == {c \in DOMAIN gridMap : c[1] = newGridX}
  IN  /\ lineIsValid(gridMap, horizontalFaces, 1)
      /\ lineIsValid(gridMap, verticalFaces, 2)
      /\ validateDiagonalConfigurations(gridMap, newGridX, newGridY)

AdjacentCells(c) ==
  { <<c[1] + 1, c[2]>>, <<c[1] - 1, c[2]>>, <<c[1], c[2] + 1>>, <<c[1], c[2] - 1>> }

\* the positions the breadth-first search of validateConnectivity visits
RECURSIVE visitedFrom(_, _)
visitedFrom(positions, visited) ==
  LET next == {c \in positions \ visited : AdjacentCells(c) \cap visited # {}}
  IN  IF next = {} THEN visited ELSE visitedFrom(positions, visited \cup next)

validateConnectivity(gridMap) ==
  IF Cardinality(DOMAIN gridMap) <= 1 THEN TRUE
  ELSE LET start == CHOOSE c \in DOMAIN gridMap : TRUE
       IN  visitedFrom(DOMAIN gridMap, {start}) = DOMAIN gridMap

\* validateBranchingPatterns that asks for at least one neighbour
validateBranchingPatternsAtLeastOne(gridMap, newFaceIndex, newGridX, newGridY) ==
  Cardinality(AdjacentCells(<<newGridX, newGridY>>) \cap DOMAIN gridMap) >= 1

validateBranchingPatterns(gridMap, newFaceIndex, newGridX, newGridY) ==
  Cardinality(AdjacentCells(<<newGridX, newGridY>>) \cap DOMAIN gridMap) = 1

\* validateKnownInvalidPatterns before the 2x2 test was written into it
validateKnownInvalidPatternsStub(gridMap) == TRUE

validateKnownInvalidPatterns(gridMap) ==
  ~ /\ Cardinality(DOMAIN gridMap) >= 4
    /\ \E c \in DOMAIN gridMap :
         { c, <<c[1] + 1, c[2]>>, <<c[1], c[2] + 1>>, <<c[1] + 1, c[2] + 1>> }
           \subseteq DOMAIN gridMap

isValidNetPlacement(newFaceIndex, newGridX, newGridY, newParentIndex, currentFaceStates) ==
  LET gridMap == gridMapOf(currentFaceStates)
      newPos == <<newGridX, newGridY>>
      tempGridMap == [c \in DOMAIN gridMap \cup {newPos} |->
                        IF c = newPos THEN newFaceIndex ELSE gridMap[c]]
  IN  \* Rule 1: position must not be occupied
      IF newPos \in DOMAIN gridMap THEN FALSE
      \* Rule 2: new face must be adjacent to parent on the real cube
      ELSE IF newParentIndex \notin ADJACENT_ON_CUBE[newFaceIndex] THEN FALSE
      \* Rule 3: no overlap configurations
      ELSE IF wouldCreateOverlap(gridMap, newFaceIndex, newGridX, newGridY) THEN FALSE
      \* Rule 4: straight lines
      ELSE IF ~validateStraightLineConfigurations(tempGridMap, newFaceIndex, newGridX, newGridY)
      THEN FALSE
      \* Rule 5: the net must remain connected
      ELSE IF ~validateConnectivity(tempGridMap) THEN FALSE
      \* Rule 6: branching patterns
      ELSE IF ~validateBranchingPatterns(tempGridMap, newFaceIndex, newGridX, newGridY)
      THEN FALSE
      \* Rule 7: known invalid patterns
      ELSE IF ~validateKnownInvalidPatterns(tempGridMap) THEN FALSE
      \* Rule 8: a complete net must have a valid canonical shape
      ELSE IF Cardinality(DOMAIN tempGridMap) = 6
      THEN getCanonicalShapeKey(DOMAIN tempGridMap) \in VALID_SHAPE_CANONICALS
      ELSE TRUE

(***************************************************************************)
(* Animation Driver.                                                       *)
(***************************************************************************)
\* animateFace: registers the first animate callback
animateFace(S, faceIndex, targetProgress) ==
  [S EXCEPT !.anims =
     Append(@, [face |-> faceIndex, target |-> targetProgress, age |-> 0])]

\* eased progress of the a-th frame of an animation, as a fraction num/den
EasedNum(a) ==
  IF 2 * a < FramesPerAnim
  THEN 2 * a * a
  ELSE FramesPerAnim * FramesPerAnim - 2 * (FramesPerAnim - a) * (FramesPerAnim - a)
EasedDen == FramesPerAnim * FramesPerAnim

\* one call of animate for the callback a: the new animProgress of its face
animateStep(fs, a) ==
  LET age == a.age + 1
      currentProgress == fs[a.face].animProgress
      stepped == currentProgress + ((a.target - currentProgress) * EasedNum(age)) \div EasedDen
  IN  [fs EXCEPT ![a.face].animProgress =
         IF age < FramesPerAnim THEN stepped ELSE a.target]

\* one animation frame: every pending callback runs once, in registration
\* order; a callback whose progress is below 1 registers itself again
RECURSIVE runFrame(_, _, _)
runFrame(fs, pending, kept) ==
  IF pending = <<>> THEN [faceStates |-> fs, anims |-> kept]
  ELSE LET a == Head(pending)
       IN  runFrame(animateStep(fs, a), Tail(pending),
                    IF a.age + 1 < FramesPerAnim
                    THEN Append(kept, [a EXCEPT !.age = @ + 1])
                    ELSE kept)

(***************************************************************************)
(* Handlers of Cube3DPage, as functions of the page state S.               *)
(***************************************************************************)
\* handleUnfold that stores the parent of the UP hinge whatever the direction
handleUnfoldParentOfUp(S, faceIndex, direction) ==
  LET hinge == HINGE_CONFIG[faceIndex][direction]
  IN  IF hinge.parentFaceIndex = null THEN S
      ELSE LET S1 == [S EXCEPT !.faceStates[faceIndex] =
                        [@ EXCEPT !.unfolded = TRUE,
                                  !.direction = direction,
                                  !.parentFace = HINGE_CONFIG[faceIndex]["UP"].parentFaceIndex]]
               S2 == animateFace(S1, faceIndex, 1000)
           IN  [S2 EXCEPT !.unfoldHistory = Append(@, faceIndex)]

handleUnfold(S, faceIndex, direction) ==
  LET hinge == HINGE_CONFIG[faceIndex][direction]
  IN  IF hinge.parentFaceIndex = null THEN S
      ELSE LET S1 == [S EXCEPT !.faceStates[faceIndex] =
                        [@ EXCEPT !.unfolded = TRUE,
                                  !.direction = direction,
                                  !.parentFace = hinge.parentFaceIndex]]
               S2 == animateFace(S1, faceIndex, 1000)
           IN  [S2 EXCEPT !.unfoldHistory = Append(@, faceIndex)]

\* handleDirectionClick without the test of faceState.unfolded
handleDirectionClickAlways(S, faceIndex, direction) ==
  handleUnfold(S, faceIndex, direction)

\* InteractiveCubeFace.handleDirectionClick (mode is always net-building)
handleDirectionClick(S, faceIndex, direction) ==
  IF ~S.faceStates[faceIndex].unfolded
  THEN handleUnfold(S, faceIndex, direction)
  ELSE S

\* a click on arrow `direction` of face `faceIndex`: UnfoldArrows is rendered
\* for a folded face only and its button acts only when the direction is one
\* of possibleDirections
arrowClick(S, faceIndex, direction) ==
  IF /\ ~S.faceStates[faceIndex].unfolded
     /\ direction \in getPossibleDirections(S.faceStates, faceIndex)
  THEN handleDirectionClick(S, faceIndex, direction)
  ELSE S

\* handleFoldBack that keeps the parent reference of the folded face
handleFoldBackKeepsParent(S, faceIndex) ==
  LET S1 == [S EXCEPT !.faceStates[faceIndex] =
               [FoldedState EXCEPT !.parentFace = S.faceStates[faceIndex].parentFace]]
      S2 == animateFace(S1, faceIndex, 0)
      keep(idx) == idx # faceIndex
  IN  [S2 EXCEPT !.unfoldHistory = SelectSeq(@, keep)]

\* handleFoldBack that also clears the faces attached to the folded face
handleFoldBackWithChildren(S, faceIndex) ==
  LET S1 == [S EXCEPT !.faceStates =
               [g \in Faces |->
                  IF g = faceIndex \/ S.faceStates[g].parentFace = faceIndex
                  THEN FoldedState ELSE S.faceStates[g]]]
      S2 == animateFace(S1, faceIndex, 0)
      keep(idx) == idx # faceIndex
  IN  [S2 EXCEPT !.unfoldHistory = SelectSeq(@, keep)]

handleFoldBack(S, faceIndex) ==
  LET S1 == [S EXCEPT !.faceStates[faceIndex] = FoldedState]
      S2 == animateFace(S1, faceIndex, 0)
      keep(idx) == idx # faceIndex
  IN  [S2 EXCEPT !.unfoldHistory = SelectSeq(@, keep)]

\* InteractiveCubeFace.handleClick
handleClick(S, faceIndex) ==
  IF S.faceStates[faceIndex].unfolded THEN handleFoldBack(S, faceIndex) ELSE S

\* folds the faces of `faces` (a sequence) one after the other
RECURSIVE foldEach(_, _)
foldEach(S, faces) ==
  IF faces = <<>> THEN S
  ELSE foldEach(animateFace([S EXCEPT !.faceStates[Head(faces)] = FoldedState],
                            Head(faces), 0),
                Tail(faces))

\* the members of a set of faces in increasing index order
RECURSIVE InIndexOrder(_)
InIndexOrder(set) ==
  IF set = {} THEN <<>>
  ELSE LET m == CHOOSE x \in set : \A y \in set : x <= y
       IN  <<m>> \o InIndexOrder(set \ {m})

hasDependents(fs, lastFaceIndex) ==
  \E idx \in Faces :
    idx # lastFaceIndex /\ fs[idx].parentFace = lastFaceIndex /\ fs[idx].unfolded

dependentFacesOf(fs, lastFaceIndex) ==
  {idx \in Faces : fs[idx].parentFace = lastFaceIndex /\ fs[idx].unfolded}

\* handleUndo that takes the oldest entry of the history
handleUndoOldest(S) ==
  IF Len(S.unfoldHistory) = 0 THEN S
  ELSE
    LET lastFaceIndex == S.unfoldHistory[1]
        dependentFaces == dependentFacesOf(S.faceStates, lastFaceIndex)
        keep(idx) == idx \notin dependentFaces /\ idx # lastFaceIndex
        S1 == IF hasDependents(S.faceStates, lastFaceIndex)
              THEN [foldEach(S, InIndexOrder(dependentFaces))
                      EXCEPT !.unfoldHistory = SelectSeq(@, keep)]
              ELSE [S EXCEPT !.unfoldHistory = SubSeq(@, 2, Len(@))]
    IN  foldEach(S1, <<lastFaceIndex>>)

\* handleUndo that drops only the last entry of the history, also when it
\* folds dependent faces
handleUndoPopsOnly(S) ==
  IF Len(S.unfoldHistory) = 0 THEN S
  ELSE
    LET lastFaceIndex == S.unfoldHistory[Len(S.unfoldHistory)]
        dependentFaces == dependentFacesOf(S.faceStates, lastFaceIndex)
        S1 == IF hasDependents(S.faceStates, lastFaceIndex)
              THEN [foldEach(S, InIndexOrder(dependentFaces))
                      EXCEPT !.unfoldHistory = SubSeq(@, 1, Len(@) - 1)]
              ELSE [S EXCEPT !.unfoldHistory = SubSeq(@, 1, Len(@) - 1)]
    IN  foldEach(S1, <<lastFaceIndex>>)

handleUndo(S) ==
  IF Len(S.unfoldHistory) = 0 THEN S
  ELSE
    LET lastFaceIndex == S.unfoldHistory[Len(S.unfoldHistory)]
        dependentFaces == dependentFacesOf(S.faceStates, lastFaceIndex)
        keep(idx) == idx \notin dependentFaces /\ idx # lastFaceIndex
        S1 == IF hasDependents(S.faceStates, lastFaceIndex)
              THEN [foldEach(S, InIndexOrder(dependentFaces))
                      EXCEPT !.unfoldHistory = SelectSeq(@, keep)]
              ELSE [S EXCEPT !.unfoldHistory = SubSeq(@, 1, Len(@) - 1)]
    IN  foldEach(S1, <<lastFaceIndex>>)

RECURSIVE animateEach(_, _, _)
animateEach(S, faces, targetProgress) ==
  IF faces = <<>> THEN S
  ELSE animateEach(animateFace(S, Head(faces), targetProgress), Tail(faces), targetProgress)

handleFoldToCube(S) ==
  LET unfoldedFaces == InIndexOrder(UnfoldedFaces(S.faceStates))
  IN  IF Len(unfoldedFaces) = 0 THEN S
      ELSE [animateEach(S, unfoldedFaces, 0) EXCEPT !.timers = Append(@, 0)]

\* handleReset that leaves the history alone
handleResetKeepsHistory(S) ==
  [S EXCEPT !.faceStates = InitialFaceStates]

handleReset(S) ==
  [S EXCEPT !.faceStates = InitialFaceStates, !.unfoldHistory = <<>>]

\* the callback handleFoldToCube hands to setTimeout
foldToCubeTimeout(S) ==
  [S EXCEPT !.faceStates = InitialFaceStates, !.unfoldHistory = <<>>,
            !.timers = Tail(@)]

(***************************************************************************)
(* Actions.                                                                *)
(***************************************************************************)
Becomes(S) ==
  /\ faceStates' = S.faceStates
  /\ unfoldHistory' = S.unfoldHistory
  /\ anims' = S.anims
  /\ timers' = S.timers

Quiet == anims = <<>> /\ timers = <<>>

\* a timer is due once the frames of the animations started with it have run
TimerDue == timers # <<>> /\ Head(timers) >= FramesPerAnim

\* a click on a disabled arrow runs no handler
ArrowClick(f, d) ==
  /\ Becomes(arrowClick(Cur, f, d))
  /\ lastOp' = IF arrowClick(Cur, f, d) = Cur
               THEN lastOp
               ELSE [op |-> "unfold", face |-> f, n |-> UnfoldedCount(faceStates)]

FaceClick(f) ==
  /\ faceStates[f].unfolded
  /\ Becomes(handleClick(Cur, f))
  /\ lastOp' = [op |-> "foldBack", face |-> f, n |-> UnfoldedCount(faceStates)]

\* the Undo button is disabled while the history is empty
Undo ==
  /\ Len(unfoldHistory) # 0
  /\ Becomes(handleUndo(Cur))
  /\ lastOp' = [op |-> "undo", face |-> unfoldHistory[Len(unfoldHistory)],
                n |-> UnfoldedCount(faceStates)]

\* the Fold button is disabled while no face is unfolded
FoldToCube ==
  /\ UnfoldedCount(faceStates) # 0
  /\ Becomes(handleFoldToCube(Cur))
  /\ lastOp' = [op |-> "foldToCube", face |-> null, n |-> UnfoldedCount(faceStates)]

Reset ==
  /\ Becomes(handleReset(Cur))
  /\ lastOp' = [op |-> "reset", face |-> null, n |-> UnfoldedCount(faceStates)]

\* one animation frame
Frame ==
  /\ anims # <<>> \/ timers # <<>>
  /\ ~TimerDue
  /\ LET r == runFrame(faceStates, anims, <<>>)
     IN  /\ faceStates' = r.faceStates
         /\ anims' = r.anims
  /\ timers' = [i \in 1..Len(timers) |-> timers[i] + 1]
  /\ lastOp' = [op |-> "frame", face |-> null, n |-> 0]
  /\ UNCHANGED <<unfoldHistory, ops>>
  /\ UNCHANGED netVars
  /\ UNCHANGED app

TimerFire ==
  /\ TimerDue
  /\ Becomes(foldToCubeTimeout(Cur))
  /\ lastOp' = [op |-> "timeout", face |-> null, n |-> UnfoldedCount(faceStates)]
  /\ UNCHANGED ops
  /\ UNCHANGED netVars
  /\ UNCHANGED app

\* the operations of the user; `limit` bounds the number of unfolded faces
UserOp(limit) ==
  \/ \E f \in Faces, d \in Directions :
       UnfoldedCount(faceStates) < limit /\ ArrowClick(f, d)
  \/ \E f \in Faces : FaceClick(f)
  \/ Undo
  \/ FoldToCube
  \/ Reset

\* Spec: the user acts when every animation and timer has run to completion
\* and unfolds at most MaxUnfolded faces at a time
SettledOp ==
  Quiet /\ UserOp(MaxUnfolded) /\ UNCHANGED ops /\ UNCHANGED netVars /\ UNCHANGED app

Next == SettledOp \/ Frame \/ TimerFire

Spec == Init /\ [][Next]_vars

\* SpecFull: as Spec, with no bound on the number of unfolded faces
SettledOpFull ==
  Quiet /\ UserOp(TOTAL_FACES) /\ UNCHANGED ops /\ UNCHANGED netVars /\ UNCHANGED app

NextFull == SettledOpFull \/ Frame \/ TimerFire

SpecFull == Init /\ [][NextFull]_vars

\* SpecPose: as Spec, with at most MaxChain faces unfolded at a time
SettledOpPose ==
  Quiet /\ UserOp(MaxChain) /\ UNCHANGED ops /\ UNCHANGED netVars /\ UNCHANGED app

NextPose == SettledOpPose \/ Frame \/ TimerFire

SpecPose == Init /\ [][NextPose]_vars

\* SpecNet: the user builds a net: unfolds only, the faces taken in the order
\* of their indices, each when the animation has come to rest.  Every choice
\* of hinges the page accepts is reached, in one order of the history.
OrderedUnfold ==
  /\ Quiet
  /\ \E f \in Faces, d \in Directions :
       /\ \A g \in UnfoldedFaces(faceStates) : g < f
       /\ ArrowClick(f, d)
  /\ UNCHANGED ops /\ UNCHANGED netVars /\ UNCHANGED app

NextNet == OrderedUnfold \/ Frame

SpecNet == Init /\ [][NextNet]_vars

\* SpecRace: the user acts at any time, between any two frames, at most
\* MaxOps times
RacingOp ==
  /\ ops < MaxOps /\ UserOp(TOTAL_FACES) /\ ops' = ops + 1
  /\ UNCHANGED netVars /\ UNCHANGED app

NextRace == RacingOp \/ Frame \/ TimerFire

SpecRace == Init /\ [][NextRace]_vars

(***************************************************************************)
(* SpecKey: getCanonicalShapeKey applied to an arrangement of six cells    *)
(* and to its image under a symmetry of the grid.                          *)
(***************************************************************************)
\* the cells a key lists
CellsOfKey(k) == {<<k[2 * i - 1], k[2 * i]>> : i \in 1..(Len(k) \div 2)}

KeyWindowCells == (0..(KeyWindow - 1)) \X (0..(KeyWindow - 1))

\* the arrangements of six distinct cells of the window, the reference nets
\* and the layouts of the valid keys
Arrangements ==
  {a \in SUBSET KeyWindowCells : Cardinality(a) = TOTAL_FACES}
    \cup {NetCells(CUBE_NETS[i]) : i \in 1..Len(CUBE_NETS)}
    \cup {CellsOfKey(k) : k \in VALID_SHAPE_CANONICALS}

\* the t-th of the 8 symmetries of the square grid: t % 4 quarter turns,
\* after a reflection in the y axis when t >= 4
Dihedral(t, cells) ==
  LET mirrored == IF t >= 4 THEN {<< -c[1], c[2]>> : c \in cells} ELSE cells
      turn(c) == CASE t % 4 = 0 -> c
                   [] t % 4 = 1 -> << -c[2], c[1]>>
                   [] t % 4 = 2 -> << -c[1], -c[2]>>
                   [] OTHER -> <<c[2], -c[1]>>
  IN  {turn(c) : c \in mirrored}

Translated(cells, dx, dy) == {<<c[1] + dx, c[2] + dy>> : c \in cells}

InitKey ==
  /\ PageInit
  /\ gridCells \in Arrangements
  /\ movedCells = gridCells
  /\ placement = <<>>
  /\ AppInit

\* one transform is applied to the arrangement as it was drawn
MoveCells(t, dx, dy) ==
  /\ movedCells = gridCells
  /\ movedCells' = Translated(Dihedral(t, gridCells), dx, dy)
  /\ UNCHANGED <<gridCells, placement>>
  /\ UNCHANGED pageVars
  /\ UNCHANGED app

\* the translations tried along one axis
KeyShifts == {-KeyShift, 0, KeyShift}

NextKey == \E t \in 0..7, dx \in KeyShifts, dy \in KeyShifts : MoveCells(t, dx, dy)

SpecKey == InitKey /\ [][NextKey]_vars

(***************************************************************************)
(* SpecPlacement: isValidNetPlacement applied to layouts of placed faces,  *)
(* and the layouts that accepted placements build from them.               *)
(***************************************************************************)
Unplaced == [unfolded |-> FALSE, gridX |-> 0, gridY |-> 0]

\* the 2x2 block of cells the layouts start in
PlaceWindowCells == (0..1) \X (0..1)

\* the cells a candidate is tried at: the block and the cells around it
CandidateCells == (-1..2) \X (-1..2)

\* the layouts of one to four faces on different cells of the window
StartLayouts ==
  {l \in [Faces -> {Unplaced} \cup
                   {[unfolded |-> TRUE, gridX |-> c[1], gridY |-> c[2]] : c \in PlaceWindowCells}] :
     /\ Cardinality({f \in Faces : l[f].unfolded}) \in 1..4
     /\ \A f, g \in Faces :
          (l[f].unfolded /\ l[g].unfolded /\ l[f] = l[g]) => f = g}

PlacedFaces == {f \in DOMAIN placement : placement[f].unfolded}
PlacedCells == DOMAIN gridMapOf(placement)

InitPlacement ==
  /\ PageInit
  /\ gridCells = {}
  /\ movedCells = {}
  /\ placement \in StartLayouts
  /\ AppInit

\* a placement the legality check accepts is made
Place(f, x, y, parent) ==
  /\ Cardinality(PlacedFaces) < MaxPlaced
  /\ ~placement[f].unfolded
  /\ isValidNetPlacement(f, x, y, parent, placement)
  /\ placement' = [placement EXCEPT ![f] = [unfolded |-> TRUE, gridX |-> x, gridY |-> y]]
  /\ lastOp' = [op |-> "place", face |-> f, n |-> Cardinality(PlacedFaces)]
  /\ UNCHANGED <<gridCells, movedCells>>
  /\ UNCHANGED <<faceStates, unfoldHistory, anims, timers, ops>>
  /\ UNCHANGED app

\* the parent stated is one of the faces placed
NextPlacement == \E f \in Faces, parent \in PlacedFaces, c \in CandidateCells :
                   Place(f, c[1], c[2], parent)

SpecPlacement == InitPlacement /\ [][NextPlacement]_vars

(***************************************************************************)
(* CubeNetExerciseFinal (src/src/App.tsx).  anim is in permille; the       *)
(* attachments Map is the sequence of its entries [face, parent, dir,      *)
(* gridX, gridY] in insertion order; a history entry is a snapshot of      *)
(* faceStates and attachments.                                             *)
(***************************************************************************)
\* face -> direction -> adjacent face
ADJ ==
  [f \in Faces |->
     CASE f = 0 -> [UP |-> 2, DOWN |-> 3, LEFT |-> 5, RIGHT |-> 4]
       [] f = 1 -> [UP |-> 2, DOWN |-> 3, LEFT |-> 4, RIGHT |-> 5]
       [] f = 2 -> [UP |-> 1, DOWN |-> 0, LEFT |-> 5, RIGHT |-> 4]
       [] f = 3 -> [UP |-> 0, DOWN |-> 1, LEFT |-> 4, RIGHT |-> 5]
       [] f = 4 -> [UP |-> 2, DOWN |-> 3, LEFT |-> 0, RIGHT |-> 1]
       [] f = 5 -> [UP |-> 2, DOWN |-> 3, LEFT |-> 1, RIGHT |-> 0]]

\* the cells and face labels of the nets the page detects
CANONICAL_NETS ==
  << << <<0,-1,0>>, <<-1,0,1>>, <<0,0,2>>, <<1,0,3>>, <<0,1,4>>, <<0,2,5>> >>,
     << <<0,-1,0>>, <<-1,0,1>>, <<0,0,2>>, <<1,0,3>>, <<2,0,4>>, <<0,1,5>> >>,
     << <<0,0,0>>, <<1,0,1>>, <<2,0,2>>, <<0,1,3>>, <<0,2,4>>, <<1,2,5>> >>,
     << <<0,0,0>>, <<1,0,1>>, <<0,1,2>>, <<0,2,3>>, <<1,2,4>>, <<2,2,5>> >>,
     << <<0,0,0>>, <<1,0,1>>, <<1,1,2>>, <<2,1,3>>, <<2,2,4>>, <<3,2,5>> >>,
     << <<0,0,0>>, <<1,0,1>>, <<2,0,2>>, <<2,1,3>>, <<1,1,4>>, <<0,1,5>> >>,
     << <<0,0,0>>, <<1,0,1>>, <<2,0,2>>, <<3,0,3>>, <<1,1,4>>, <<1,-1,5>> >>,
     << <<0,-1,0>>, <<-1,0,1>>, <<0,0,2>>, <<1,0,3>>, <<0,1,4>>, <<1,1,5>> >>,
     << <<0,0,0>>, <<1,0,1>>, <<0,1,2>>, <<1,1,3>>, <<0,2,4>>, <<-1,1,5>> >>,
     << <<0,0,0>>, <<1,0,1>>, <<1,1,2>>, <<1,2,3>>, <<2,2,4>>, <<2,1,5>> >>,
     << <<0,0,0>>, <<1,0,1>>, <<1,1,2>>, <<0,1,3>>, <<-1,1,4>>, <<-1,0,5>> >> >>

\* a layout is a sequence of <<x, y, face>>; the result maps every face that
\* occurs in it to the faces on the cells next to one of its cells
buildAdjacencyFromLayout(layout) ==
  LET idx == 1..Len(layout)
      faces == {layout[i][3] : i \in idx}
  IN  [f \in faces |->
         {layout[j][3] : j \in {j \in idx : \E i \in idx :
            /\ layout[i][3] = f
            /\ layout[j][3] # f
            /\ AbsOf(layout[i][1] - layout[j][1]) + AbsOf(layout[i][2] - layout[j][2]) = 1}}]

adjacencyMapsEqual(a, b) ==
  \A i \in Faces :
    (IF i \in DOMAIN a THEN a[i] ELSE {}) = (IF i \in DOMAIN b THEN b[i] ELSE {})

\* Map.has, Map.get (null when absent), Map.set and Map.delete on the
\* sequence of entries
attHas(att, face) == \E i \in 1..Len(att) : att[i].face = face

attGet(att, face) ==
  IF attHas(att, face)
  THEN att[CHOOSE i \in 1..Len(att) : att[i].face = face]
  ELSE null

attSet(att, entry) ==
  IF attHas(att, entry.face)
  THEN [i \in 1..Len(att) |-> IF att[i].face = entry.face THEN entry ELSE att[i]]
  ELSE Append(att, entry)

attDelete(att, face) ==
  LET keep(e) == e.face # face IN SelectSeq(att, keep)

\* the useMemo gridOccupancy: the face of the last entry on a cell, or null
gridOccupancy(att, x, y) ==
  LET on == {i \in 1..Len(att) : att[i].gridX = x /\ att[i].gridY = y}
  IN  IF on = {} THEN null
      ELSE att[CHOOSE i \in on : \A j \in on : j <= i].face

\* the cell one step from (gx, gy) in direction dir
StepFrom(gx, gy, dir) ==
  CASE dir = "UP"    -> <<gx, gy - 1>>
    [] dir = "DOWN"  -> <<gx, gy + 1>>
    [] dir = "LEFT"  -> <<gx - 1, gy>>
    [] OTHER         -> <<gx + 1, gy>>

computeTarget(S, faceIndex, dir) ==
  LET pivot == ADJ[faceIndex][dir]
      att == S.attachments
      pivotAttach ==
        IF attHas(att, pivot) THEN attGet(att, pivot)
        ELSE IF Len(att) = 0
             THEN [face |-> pivot, parent |-> -1, dir |-> "CENTER", gridX |-> 0, gridY |-> 0]
             ELSE [face |-> pivot, parent |-> -1, dir |-> "CENTER",
                   gridX |-> att[1].gridX, gridY |-> att[1].gridY]
      cell == StepFrom(pivotAttach.gridX, pivotAttach.gridY, dir)
  IN  [x |-> cell[1], y |-> cell[2], pivot |-> pivot]

\* isMoveDisabled without the test of the attached children
isMoveDisabledIgnoresChildren(S, faceIndex, dir) ==
  LET fs == S.faceStates[faceIndex]
      tgt == computeTarget(S, faceIndex, dir)
      occ == gridOccupancy(S.attachments, tgt.x, tgt.y)
  IN  IF fs.unfolded /\ fs.hingeDir # nullDir /\ fs.hingeDir # dir THEN TRUE
      ELSE IF occ # null /\ occ # faceIndex THEN TRUE
      ELSE FALSE

isMoveDisabled(S, faceIndex, dir) ==
  LET fs == S.faceStates[faceIndex]
      tgt == computeTarget(S, faceIndex, dir)
      occ == gridOccupancy(S.attachments, tgt.x, tgt.y)
  IN  IF fs.unfolded /\ fs.hingeDir # nullDir /\ fs.hingeDir # dir THEN TRUE
      ELSE IF occ # null /\ occ # faceIndex THEN TRUE
      ELSE IF fs.unfolded /\ \E i \in 1..Len(S.attachments) :
                               S.attachments[i].parent = faceIndex
      THEN TRUE
      ELSE FALSE

\* the first free cell of `tries`, or the cell given when none is free
RECURSIVE firstFree(_, _, _)
firstFree(att, tries, given) ==
  IF tries = <<>> THEN given
  ELSE IF gridOccupancy(att, Head(tries)[1], Head(tries)[2]) = null THEN Head(tries)
  ELSE firstFree(att, Tail(tries), given)

\* the entries of `att` without those whose parent is faceIndex
deleteChildren(att, faceIndex) ==
  LET keep(e) == e.parent # faceIndex IN SelectSeq(att, keep)

handleToggle(S, faceIndex, dir) ==
  IF isMoveDisabled(S, faceIndex, dir) THEN S
  ELSE
    LET att == S.attachments
        tgt == computeTarget(S, faceIndex, dir)
        existingPivot == attHas(att, tgt.pivot)
        reference == IF Len(att) = 0 THEN <<0, 0>> ELSE <<att[1].gridX, att[1].gridY>>
        pivotCell ==
          IF existingPivot
          THEN <<attGet(att, tgt.pivot).gridX, attGet(att, tgt.pivot).gridY>>
          ELSE IF gridOccupancy(att, reference[1], reference[2]) # null
               THEN firstFree(att, << <<reference[1] + 1, reference[2]>>,
                                      <<reference[1] - 1, reference[2]>>,
                                      <<reference[1], reference[2] + 1>>,
                                      <<reference[1], reference[2] - 1>>,
                                      <<0, 0>> >>, reference)
               ELSE reference
        finalFace == StepFrom(pivotCell[1], pivotCell[2], dir)
        pivotNeedsUnfolding == ~existingPivot
        wasUnfolded == S.faceStates[faceIndex].unfolded
        withPivot ==
          IF existingPivot THEN att
          ELSE attSet(att, [face |-> tgt.pivot, parent |-> -1, dir |-> "CENTER",
                            gridX |-> pivotCell[1], gridY |-> pivotCell[2]])
        newAttachments ==
          IF ~wasUnfolded
          THEN attSet(withPivot, [face |-> faceIndex, parent |-> tgt.pivot, dir |-> dir,
                                  gridX |-> finalFace[1], gridY |-> finalFace[2]])
          ELSE deleteChildren(attDelete(withPivot, faceIndex), faceIndex)
        newFaceStates ==
          [i \in Faces |->
             LET s == S.faceStates[i]
             IN  IF pivotNeedsUnfolding /\ i = tgt.pivot /\ ~s.unfolded
                 THEN [s EXCEPT !.unfolded = TRUE, !.hingeDir = nullDir, !.anim = 1000,
                                !.gridX = pivotCell[1], !.gridY = pivotCell[2]]
                 ELSE IF i # faceIndex THEN s
                 ELSE IF ~s.unfolded
                 THEN [s EXCEPT !.unfolded = TRUE, !.hingeDir = dir, !.anim = 0,
                                !.gridX = finalFace[1], !.gridY = finalFace[2]]
                 ELSE [s EXCEPT !.unfolded = FALSE, !.hingeDir = nullDir, !.anim = 1000,
                                !.gridX = 0, !.gridY = 0]]
    IN  [S EXCEPT !.history = Append(@, [faceStates |-> S.faceStates,
                                         attachments |-> S.attachments]),
                  !.warning = "null",
                  !.attachments = newAttachments,
                  !.faceStates = newFaceStates]

undo(S) ==
  IF Len(S.history) = 0 THEN S
  ELSE LET last == S.history[Len(S.history)]
       IN  [S EXCEPT !.history = SubSeq(@, 1, Len(@) - 1),
                     !.faceStates = last.faceStates,
                     !.attachments = last.attachments,
                     !.warning = "null"]

resetAll(S) == AppInitialState

\* the step of one frame for a face whose anim is diff permille from its
\* target: 0.18 of diff, to the next permille
tickStep(diff) ==
  IF diff >= 0 THEN (diff * 18 + 99) \div 100 ELSE -((-diff * 18 + 99) \div 100)

\* the callback of requestAnimationFrame
tick(S) ==
  [S EXCEPT !.faceStates =
     [i \in Faces |->
        LET s == S.faceStates[i]
            target == IF s.unfolded THEN 1000 ELSE 0
            diff == target - s.anim
        IN  IF diff = 0 THEN [s EXCEPT !.anim = target]
            ELSE [s EXCEPT !.anim = s.anim + tickStep(diff)]]]

\* the effect that detects the net, run after every change of the state
detectNet(S) ==
  LET opened == Cardinality({f \in Faces : S.faceStates[f].unfolded})
      att == S.attachments
      layout == [i \in 1..Len(att) |-> <<att[i].gridX, att[i].gridY, att[i].face>>]
      currentAdj == buildAdjacencyFromLayout(layout)
      matches == {i \in 1..Len(CANONICAL_NETS) :
                    adjacencyMapsEqual(currentAdj, buildAdjacencyFromLayout(CANONICAL_NETS[i]))}
  IN  IF opened # 6 THEN [S EXCEPT !.detectedNet = null]
      ELSE IF Len(layout) < 6 THEN S
      ELSE IF matches # {}
      THEN LET matched == (CHOOSE i \in matches : \A j \in matches : i <= j) - 1
           IN  [S EXCEPT !.detectedNet = matched, !.discovered = @ \cup {matched}]
      ELSE [S EXCEPT !.detectedNet = null, !.warning = "no canonical net"]

AppSettled ==
  \A f \in Faces :
    app.faceStates[f].anim = IF app.faceStates[f].unfolded THEN 1000 ELSE 0

IdlePages == UNCHANGED pageVars /\ UNCHANGED netVars

\* a click on the button `dir` of face faceIndex; a disabled button runs no
\* handler
Toggle(faceIndex, dir) ==
  /\ Len(app.history) < MaxHistory
  /\ ~isMoveDisabled(app, faceIndex, dir)
  /\ app' = detectNet(handleToggle(app, faceIndex, dir))
  /\ IdlePages

AppUndo ==
  /\ Len(app.history) # 0
  /\ app' = detectNet(undo(app))
  /\ IdlePages

AppReset ==
  /\ app # AppInitialState
  /\ app' = detectNet(resetAll(app))
  /\ IdlePages

AppTick ==
  /\ ~AppSettled
  /\ app' = detectNet(tick(app))
  /\ IdlePages

\* SpecApp: the user of CubeNetExerciseFinal acts when the animation has
\* come to rest
AppOp ==
  /\ AppSettled
  /\ \/ \E f \in Faces, d \in Directions : Toggle(f, d)
     \/ AppUndo
     \/ AppReset

NextApp == AppOp \/ AppTick

SpecApp == Init /\ [][NextApp]_vars

TypeOK ==
  /\ \A f \in Faces : faceStates[f].animProgress \in 0..1000
  /\ Len(unfoldHistory) <= TOTAL_FACES

\* the useMemo values of the page
worldMatrices == computeAllWorldMatrices(faceStates)
netStatus == evaluateNetCompletion(faceStates, worldMatrices)

C2_CompletionMeansValidNet ==
  netStatus.isComplete =>
    /\ \A f \in UnfoldedFaces(faceStates) : faceStates[f].animProgress >= 999
    /\ netStatus.canonicalKey \in VALID_SHAPE_CANONICALS
    /\ LET axes == getPlaneAxesFromMatrix(worldMatrices[0])
           cell(f) == <<Dot(worldMatrices[f].t, axes.right),
                        Dot(worldMatrices[f].t, axes.up)>>
       IN  /\ \A f \in Faces :
                Dot(getNormalFromMatrix(worldMatrices[f]), axes.normal) \in {1, -1}
           /\ Cardinality({cell(f) : f \in Faces}) = TOTAL_FACES

(***************************************************************************)
(* Properties of the Unfold Graph.                                         *)
(***************************************************************************)
\* the faces reached from f by following between 1 and n parentFace links
RECURSIVE AncestorsWithin(_, _, _)
AncestorsWithin(fs, f, n) ==
  IF n = 0 \/ fs[f].parentFace = null THEN {}
  ELSE {fs[f].parentFace} \cup AncestorsWithin(fs, fs[f].parentFace, n - 1)

Ancestors(fs, f) == AncestorsWithin(fs, f, TOTAL_FACES)

\* the faces that have f among their ancestors
Descendants(fs, f) == {g \in Faces : f \in Ancestors(fs, g)}

HistoryFaces(h) == {h[i] : i \in 1..Len(h)}

\* C3: forest invariant.  No face is its own parentFace and following
\* parentFace links from a face never leads back to that face.
C3_ForestInvariant ==
  \A f \in Faces :
    /\ faceStates[f].parentFace # f
    /\ f \notin Ancestors(faceStates, f)

\* an unfold has completed a chain of three unfolded faces
C3_Witness ==
  /\ lastOp.op = "unfold"
  /\ \E f \in Faces :
       /\ faceStates[f].unfolded
       /\ faceStates[f].parentFace # null
       /\ faceStates[faceStates[f].parentFace].unfolded
       /\ faceStates[faceStates[f].parentFace].parentFace # null
       /\ faceStates[faceStates[faceStates[f].parentFace].parentFace].unfolded

\* an unfold request whose parent chain, walked from the hinge's parent,
\* reaches the face itself
CyclicRequest(fs, f, d) ==
  LET p == HINGE_CONFIG[f][d].parentFaceIndex
  IN  p # null /\ (p = f \/ f \in Ancestors(fs, p))

\* C4: cycle prevention.  A click that requests unfold(f, d) with a parent
\* chain leading back to f changes nothing, and getPossibleDirections(f)
\* does not offer d.
C4_CyclePrevention ==
  \A f \in Faces, d \in Directions :
    CyclicRequest(faceStates, f, d) =>
      /\ arrowClick(Cur, f, d) = Cur
      /\ d \notin getPossibleDirections(faceStates, f)

\* a parent has just been folded back, one of its children is still unfolded
\* and unfolding the parent onto that child is a cyclic request
C4_Witness ==
  /\ lastOp.op = "foldBack"
  /\ \E c \in Faces, d \in Directions :
       /\ faceStates[c].unfolded
       /\ faceStates[c].parentFace = lastOp.face
       /\ HINGE_CONFIG[lastOp.face][d].parentFaceIndex = c
       /\ CyclicRequest(faceStates, lastOp.face, d)

\* C5: for every face, unfolded = false, direction = null and
\* parentFace = null hold together or not at all.
C5_FoldedCoupling ==
  \A f \in Faces :
    /\ (~faceStates[f].unfolded) <=> (faceStates[f].direction = nullDir)
    /\ (faceStates[f].direction = nullDir) <=> (faceStates[f].parentFace = null)

\* a face has been folded back while another one stays unfolded
C5_Witness ==
  /\ lastOp.op = "foldBack"
  /\ ~faceStates[lastOp.face].unfolded
  /\ \E g \in Faces : faceStates[g].unfolded /\ faceStates[g].parentFace # null

\* C6: animation settling.  Once no animation callback and no timer is
\* pending, every folded face has animProgress 0 and every unfolded face has
\* animProgress 1.
C6_AnimationSettles ==
  Quiet =>
    \A f \in Faces :
      faceStates[f].animProgress = IF faceStates[f].unfolded THEN 1000 ELSE 0

LastOf(h) == h[Len(h)]

\* C7: undo is LIFO.  When no unfolded face is attached to the most recently
\* unfolded face, undo folds exactly that face, removes only it from the
\* history and leaves every other FaceState as it was.
C7_UndoIsLIFO ==
  [][ (/\ lastOp'.op = "undo"
       /\ Len(unfoldHistory) > 0
       /\ ~hasDependents(faceStates, LastOf(unfoldHistory)))
      => /\ faceStates' = [faceStates EXCEPT ![LastOf(unfoldHistory)] = FoldedState]
         /\ unfoldHistory' = SubSeq(unfoldHistory, 1, Len(unfoldHistory) - 1)
    ]_vars

\* Front and then Top were unfolded, and undo has folded Top only
C7_Witness ==
  /\ lastOp = [op |-> "undo", face |-> 2, n |-> 2]
  /\ unfoldHistory = <<0>>
  /\ faceStates[0].unfolded
  /\ faceStates[2] = FoldedState
  /\ anims = <<[face |-> 2, target |-> 0, age |-> 0]>>

\* C8: undo cascade.  Undo of a face with dependent faces reverses all of
\* them, children, grandchildren and so on: afterwards none of them is
\* unfolded or in the history and no unfolded face has the undone face as
\* an ancestor.
C8_UndoCascade ==
  [][ (lastOp'.op = "undo" /\ Len(unfoldHistory) > 0)
      => LET undone == LastOf(unfoldHistory)
         IN  /\ \A g \in Descendants(faceStates, undone) \cup {undone} :
                  /\ ~faceStates'[g].unfolded
                  /\ g \notin HistoryFaces(unfoldHistory')
             /\ \A g \in Faces :
                  faceStates'[g].unfolded => undone \notin Ancestors(faceStates', g)
    ]_vars

\* C9: unfold of a face that is already unfolded is a silent no-op.
C9_UnfoldOfUnfoldedIsNoOp ==
  \A f \in Faces, d \in Directions :
    faceStates[f].unfolded =>
      /\ handleDirectionClick(Cur, f, d) = Cur
      /\ arrowClick(Cur, f, d) = Cur

\* an unfolded face, whose animation has ended, next to a folded one
C9_Witness ==
  /\ lastOp.op = "frame"
  /\ Quiet
  /\ \E f, g \in Faces : faceStates[f].unfolded /\ ~faceStates[g].unfolded

\* C10: reset puts every face into the initial folded configuration and
\* empties the history.
C10_ResetClears ==
  lastOp.op = "reset" =>
    /\ \A f \in Faces :
         /\ ~faceStates[f].unfolded
         /\ faceStates[f].animProgress = 0
         /\ faceStates[f].direction = nullDir
         /\ faceStates[f].parentFace = null
    /\ unfoldHistory = <<>>

\* reset ran while two faces were unfolded and an animation was under way
C10_Witness ==
  /\ lastOp.op = "reset"
  /\ lastOp.n = 2
  /\ anims # <<>>
  /\ faceStates = InitialFaceStates

(***************************************************************************)
(* Independent hinges.                                                     *)
(***************************************************************************)
\* the history h without the face f
HistoryWithout(h, f) ==
  LET keep(idx) == idx # f
  IN  SelectSeq(h, keep)

\* C11: foldBack of an unfolded face always takes effect, also when unfolded
\* faces are attached to it: it clears the state of that face, removes that
\* face and no other from the history, and leaves the FaceState of every
\* other face, its children included, as it was.
C11_FoldBackIsIndependent ==
  [][ \A f \in Faces :
        (lastOp'.op = "foldBack" /\ lastOp'.face = f /\ faceStates[f].unfolded)
        => /\ faceStates'[f] = FoldedState
           /\ \A g \in Faces \ {f} : faceStates'[g] = faceStates[g]
           /\ unfoldHistory' = HistoryWithout(unfoldHistory, f)
    ]_vars

\* a face has been folded back and a face attached to it is still unfolded,
\* still names it as parentFace and is still in the history
C11_Witness ==
  /\ lastOp.op = "foldBack"
  /\ faceStates[lastOp.face] = FoldedState
  /\ lastOp.face \notin HistoryFaces(unfoldHistory)
  /\ \E g \in Faces :
       /\ faceStates[g].unfolded
       /\ faceStates[g].parentFace = lastOp.face
       /\ g \in HistoryFaces(unfoldHistory)

(***************************************************************************)
(* Properties of the canonical shape key.                                  *)
(***************************************************************************)
\* C12: canonical key invariance.  An arrangement of 6 distinct grid cells
\* and its image under any of the 8 dihedral transforms followed by any
\* translation have the same canonical key.
C12_CanonicalKeyInvariance ==
  getCanonicalShapeKey(movedCells) = getCanonicalShapeKey(gridCells)

\* the zigzag reference net, which is not its own mirror image, has been
\* reflected, turned and translated
C12_Witness ==
  /\ gridCells = NetCells(CUBE_NETS[5])
  /\ movedCells = Translated(Dihedral(5, gridCells), 1, -1)
  /\ movedCells # gridCells

\* the canonical keys of the reference net layouts
ReferenceKeys == {getCanonicalShapeKey(NetCells(CUBE_NETS[i])) : i \in 1..Len(CUBE_NETS)}

\* C13: the valid canonical keys are the keys of the reference nets.  The key
\* of every reference net is in VALID_SHAPE_CANONICALS and every key of
\* VALID_SHAPE_CANONICALS is the key of a reference net: the key of an
\* arrangement is valid exactly when it is the key of a reference net.
C13_ValidKeysAreReferenceKeys ==
  (getCanonicalShapeKey(gridCells) \in VALID_SHAPE_CANONICALS)
    <=> (getCanonicalShapeKey(gridCells) \in ReferenceKeys)

\* C14: canonical set size.  The set of valid keys an arrangement is matched
\* against holds exactly 11 keys, and the 11 reference layouts have 11
\* different keys.
C14_ElevenDistinctKeys ==
  gridCells \in Arrangements =>
    /\ Cardinality(VALID_SHAPE_CANONICALS) = 11
    /\ Len(CUBE_NETS) = 11
    /\ Cardinality(ReferenceKeys) = 11

(***************************************************************************)
(* Properties of the Pose Resolver.                                        *)
(***************************************************************************)
\* the faces that are unfolded and whose hinge is at rest
RestingFaces == {f \in Faces : faceStates[f].unfolded /\ faceStates[f].animProgress = 0}

\* C15 as stated: the world transform of an unfolded face with animProgress 0
\* is the static folded transform of the face, whatever the state of the
\* other faces.
C15_RestPoseIsFoldedPose ==
  \A f \in RestingFaces : computeWorldMatrix(f, faceStates) = BASE_MATRICES[f]

\* C15: round-trip pose at rest.  The world transform of an unfolded face
\* with animProgress 0 is the static folded transform of the face whenever
\* the world transform of its parent is the static folded transform of the
\* parent.
C15_RestPoseOnRestingParent ==
  \A f \in RestingFaces :
    LET p == faceStates[f].parentFace
    IN  computeWorldMatrix(p, faceStates) = BASE_MATRICES[p]
          => computeWorldMatrix(f, faceStates) = BASE_MATRICES[f]

\* a face has just been unfolded, its hinge is still at rest, its parent is
\* folded and another face lies fully open
C15_Witness ==
  /\ lastOp.op = "unfold"
  /\ lastOp.face \in RestingFaces
  /\ ~faceStates[faceStates[lastOp.face].parentFace].unfolded
  /\ computeWorldMatrix(lastOp.face, faceStates) = BASE_MATRICES[lastOp.face]
  /\ \E g \in Faces : faceStates[g].unfolded /\ faceStates[g].animProgress = 1000

\* the faces that are unfolded and whose hinge is fully open
OpenFaces == {f \in Faces : faceStates[f].unfolded /\ faceStates[f].animProgress >= 999}

\* the hinge of f and of every face up its parent chain is at rest or fully
\* open (the pose of a hinge part-way open is not modelled)
PoseSettled(f) ==
  \A g \in {f} \cup Ancestors(faceStates, f) :
    faceStates[g].unfolded =>
      (faceStates[g].animProgress = 0 \/ faceStates[g].animProgress >= 999)

\* the midpoints of the four edges of a face, in the frame of the face
EdgeMidpoints == { <<1, 0, 0>>, <<-1, 0, 0>>, <<0, 1, 0>>, <<0, -1, 0>> }

\* C16: fully open pose.  A face whose hinge is fully open has the outward
\* normal of its parent's resolved pose, its centre lies in the parent's
\* plane exactly one face-width (two units) from the parent's centre, and one
\* of its edges coincides with an edge of the parent, midway between the two
\* centres.
C16_FullyOpenPose ==
  \A f \in OpenFaces :
    PoseSettled(f) =>
      LET W == computeWorldMatrix(f, faceStates)
          P == computeWorldMatrix(faceStates[f].parentFace, faceStates)
          d == VecAdd(W.t, Negate(P.t))
      IN  /\ getNormalFromMatrix(W) = getNormalFromMatrix(P)
          /\ Dot(d, d) = 4
          /\ Dot(d, getNormalFromMatrix(P)) = 0
          /\ \E ec \in EdgeMidpoints, ep \in EdgeMidpoints :
                /\ ApplyMatrix4(W, ec) = ApplyMatrix4(P, ep)
                /\ Scale(2, ApplyMatrix4(W, ec)) = VecAdd(W.t, P.t)

\* a face lies fully open on a parent that lies fully open itself
C16_Witness ==
  /\ Quiet
  /\ \E f \in OpenFaces :
       /\ faceStates[f].parentFace \in OpenFaces
       /\ getNormalFromMatrix(computeWorldMatrix(f, faceStates)) =
            getNormalFromMatrix(computeWorldMatrix(faceStates[f].parentFace, faceStates))

(***************************************************************************)
(* Properties of the hinge table.                                          *)
(***************************************************************************)
\* C17: hinge table totality.  HINGE_CONFIG has an entry for every face and
\* every direction; the parent of the entry is one of the four faces that
\* share an edge with the face on the cube, never the face itself or the
\* opposite face; the four directions of a face lead to four different
\* parents; and the parent an unfolded face has been given is the parent of
\* its entry.
C17_HingeTableTotal ==
  /\ \A f \in Faces :
       /\ \A d \in Directions :
            /\ HasHinge(f, d)
            /\ HINGE_CONFIG[f][d].parentFaceIndex \in ADJACENT_ON_CUBE[f]
            /\ HINGE_CONFIG[f][d].parentFaceIndex \notin {f, OPPOSITE_FACES[f]}
       /\ Cardinality({HINGE_CONFIG[f][d].parentFaceIndex : d \in Directions}) = 4
  /\ \A f \in UnfoldedFaces(faceStates) :
       faceStates[f].parentFace = HINGE_CONFIG[f][faceStates[f].direction].parentFaceIndex

\* three faces have been unfolded, in three different directions
C17_Witness ==
  /\ UnfoldedCount(faceStates) = 3
  /\ Cardinality({faceStates[f].direction : f \in UnfoldedFaces(faceStates)}) = 3
  /\ \A f \in UnfoldedFaces(faceStates) :
       faceStates[f].parentFace \in ADJACENT_ON_CUBE[f]

(***************************************************************************)
(* The cross scenario.                                                     *)
(***************************************************************************)
\* the key of the cross: a column of four cells with a cell on either side
\* of its second cell
CrossKey == <<0,1, 1,0, 1,1, 1,2, 1,3, 2,1>>

\* the face attached at the `direction` edge of face f
AttachedAt(f, direction) == HINGE_CONFIG[f][direction].parentFaceIndex

\* face child lies fully open on face parent
OpenOn(child, parent) ==
  /\ faceStates[child].unfolded
  /\ faceStates[child].parentFace = parent
  /\ faceStates[child].animProgress = 1000

\* Top has been attached at Front-UP, Back at Top-UP, Bottom at Front-DOWN,
\* Left at Front-LEFT and Right at Front-RIGHT, in this order, and every
\* hinge has been driven to animProgress 1
CrossLaidOut ==
  /\ unfoldHistory = << AttachedAt(0, "UP"), AttachedAt(AttachedAt(0, "UP"), "UP"),
                        AttachedAt(0, "DOWN"), AttachedAt(0, "LEFT"), AttachedAt(0, "RIGHT") >>
  /\ OpenOn(AttachedAt(0, "UP"), 0)
  /\ OpenOn(AttachedAt(AttachedAt(0, "UP"), "UP"), AttachedAt(0, "UP"))
  /\ OpenOn(AttachedAt(0, "DOWN"), 0)
  /\ OpenOn(AttachedAt(0, "LEFT"), 0)
  /\ OpenOn(AttachedAt(0, "RIGHT"), 0)
  /\ ~faceStates[0].unfolded
  /\ Quiet

\* C18: cross scenario.  After the five unfolds of the cross, each driven to
\* animProgress 1, the net is reported complete and the shape it is matched
\* with is the canonical cross.
C18_CrossScenario ==
  CrossLaidOut =>
    /\ netStatus.isComplete
    /\ netStatus.canonicalKey = CrossKey

(***************************************************************************)
(* Properties of the incremental legality check.                           *)
(***************************************************************************)
\* C19: opposite faces are never placed on adjacent cells.  For every placed
\* face F and every cell orthogonally adjacent to the cell of F,
\* isValidNetPlacement rejects the face opposite to F at that cell, whichever
\* parent is stated.
C19_OppositeNeverAdjacent ==
  \A F \in PlacedFaces :
    \A c \in AdjacentCells(<<placement[F].gridX, placement[F].gridY>>) :
      \A parent \in Faces :
        ~isValidNetPlacement(OPPOSITE_FACES[F], c[1], c[2], parent, placement)

\* Front lies at (1,1) and Bottom has been placed next to it at (2,1); Back,
\* stated to hang on Top, is rejected at (1,0), a free cell that touches
\* Front only
C19_Witness ==
  /\ lastOp = [op |-> "place", face |-> 3, n |-> 1]
  /\ PlacedFaces = {0, 3}
  /\ <<placement[0].gridX, placement[0].gridY>> = <<1, 1>>
  /\ <<placement[3].gridX, placement[3].gridY>> = <<2, 1>>
  /\ 2 \in ADJACENT_ON_CUBE[1]
  /\ ~isValidNetPlacement(1, 1, 0, 2, placement)

\* some 2x2 block of cells lies within `cells`
FullBlockIn(cells) ==
  \E c \in cells :
    { c, <<c[1] + 1, c[2]>>, <<c[1], c[2] + 1>>, <<c[1] + 1, c[2] + 1>> } \subseteq cells

\* C20: 2x2 block rejection.  isValidNetPlacement rejects every candidate
\* after whose placement some 2x2 block of cells is fully occupied, whichever
\* faces occupy the cells, and no accepted placement yields a layout that
\* contains a full 2x2 block.
C20_NoFullBlock ==
  /\ \A c \in CandidateCells :
       FullBlockIn(PlacedCells \cup {c}) =>
         \A f \in Faces, parent \in Faces :
           ~isValidNetPlacement(f, c[1], c[2], parent, placement)
  /\ lastOp.op = "place" => ~FullBlockIn(PlacedCells)

\* accepted placements have built an L of three cells, and every candidate
\* for the cell that would complete the 2x2 block is rejected
C20_Witness ==
  /\ lastOp.op = "place"
  /\ PlacedCells = { <<1, 0>>, <<2, 0>>, <<2, 1>> }
  /\ FullBlockIn(PlacedCells \cup { <<1, 1>> })
  /\ \A f \in Faces, parent \in Faces : ~isValidNetPlacement(f, 1, 1, parent, placement)

\* the occupied cells orthogonally adjacent to cell c
OccupiedNeighbours(c, cells) == AdjacentCells(c) \cap cells

\* the cells form one edge-connected shape
EdgeConnected(cells) ==
  cells = {} \/ visitedFrom(cells, {CHOOSE c \in cells : TRUE}) = cells

\* the adjacency graph of the cells has no cycle: every non-empty part of it
\* has a cell with at most one neighbour in the part
NoAdjacencyCycle(cells) ==
  \A part \in SUBSET cells :
    part # {} => \E c \in part : Cardinality(OccupiedNeighbours(c, part)) <= 1

\* the cell of the face the last placement put down
LastPlacedCell == <<placement[lastOp.face].gridX, placement[lastOp.face].gridY>>

\* C21: single-attachment rule.  isValidNetPlacement rejects every candidate
\* whose target cell does not have exactly one occupied cell orthogonally
\* adjacent to it, whichever face and parent are stated; and a placement that
\* was accepted onto an edge-connected layout without a cycle has left the
\* layout edge-connected and without a cycle.
C21_SingleAttachment ==
  /\ \A c \in CandidateCells :
       Cardinality(OccupiedNeighbours(c, PlacedCells)) # 1 =>
         \A f \in Faces, parent \in Faces :
           ~isValidNetPlacement(f, c[1], c[2], parent, placement)
  /\ lastOp.op = "place" =>
       LET before == PlacedCells \ {LastPlacedCell}
       IN  /\ Cardinality(OccupiedNeighbours(LastPlacedCell, before)) = 1
           /\ (EdgeConnected(before) /\ NoAdjacencyCycle(before))
                 => (EdgeConnected(PlacedCells) /\ NoAdjacencyCycle(PlacedCells))

\* accepted placements have built the L of (0,0), (1,0) and (1,1) around
\* Front at (0,0), the layout is edge-connected and has no cycle, and Left,
\* stated to hang on Front, is rejected at (0,1), which touches both (0,0)
\* and (1,1)
C21_Witness ==
  /\ lastOp.op = "place"
  /\ PlacedCells = { <<0, 0>>, <<1, 0>>, <<1, 1>> }
  /\ <<placement[0].gridX, placement[0].gridY>> = <<0, 0>> /\ placement[0].unfolded
  /\ EdgeConnected(PlacedCells) /\ NoAdjacencyCycle(PlacedCells)
  /\ Cardinality(OccupiedNeighbours(<<0, 1>>, PlacedCells)) = 2
  /\ 0 \in ADJACENT_ON_CUBE[5]
  /\ ~isValidNetPlacement(5, 0, 1, 0, placement)

\* two faces share an edge of the folded cube: their outward normals are
\* perpendicular
CubeAdjacent(f, g) == Dot(FACE_BASE_INFO[f].normal, FACE_BASE_INFO[g].normal) = 0

\* C22: legal first attachment.  When a single face F is placed,
\* isValidNetPlacement accepts every face that shares an edge with F on the
\* cube at each of the four cells orthogonally adjacent to the cell of F, with
\* F stated as the parent; and, whatever is placed, it rejects a candidate
\* that does not share an edge on the cube with the parent stated.
C22_FirstAttachment ==
  /\ Cardinality(PlacedFaces) = 1 =>
       \A F \in PlacedFaces, G \in Faces :
         CubeAdjacent(F, G) =>
           \A c \in AdjacentCells(<<placement[F].gridX, placement[F].gridY>>) :
             isValidNetPlacement(G, c[1], c[2], F, placement)
  /\ \A G \in Faces, parent \in Faces, c \in CandidateCells :
       ~CubeAdjacent(G, parent) => ~isValidNetPlacement(G, c[1], c[2], parent, placement)

\* Top has been placed at (0,-1) as the first attachment to Front, alone at
\* (0,0); Back stated to hang on Front had been turned down there
C22_Witness ==
  /\ lastOp = [op |-> "place", face |-> 2, n |-> 1]
  /\ PlacedFaces = {0, 2}
  /\ <<placement[0].gridX, placement[0].gridY>> = <<0, 0>>
  /\ <<placement[2].gridX, placement[2].gridY>> = <<0, -1>>
  /\ CubeAdjacent(0, 2) /\ ~CubeAdjacent(0, 1)
  /\ ~isValidNetPlacement(1, 0, -1, 0, [placement EXCEPT ![2] = Unplaced])

(***************************************************************************)
(* The history as a record of the model.                                   *)
(***************************************************************************)
\* the fields of a FaceState the handlers set: all but animProgress
SettledFields(fs) ==
  [f \in Faces |-> [unfolded |-> fs[f].unfolded, direction |-> fs[f].direction,
                    parentFace |-> fs[f].parentFace]]

\* the page as constructed
InitialPage ==
  [faceStates |-> InitialFaceStates, unfoldHistory |-> <<>>, anims |-> <<>>, timers |-> <<>>]

\* the states a second run of the page reaches with its first arrow click
PagesAfterOneClick == {arrowClick(InitialPage, f, d) : f \in Faces, d \in Directions}

\* C23: the model is reconstructible from the history.  A reachable state and
\* a state a second run of the page reaches, when they have the same
\* unfoldHistory, have the same unfolded flag, direction and parentFace for
\* every face.
C23_HistoryDeterminesFaces ==
  \A other \in PagesAfterOneClick :
    other.unfoldHistory = unfoldHistory =>
      SettledFields(other.faceStates) = SettledFields(faceStates)

(***************************************************************************)
(* Properties of CubeNetExerciseFinal.                                     *)
(***************************************************************************)
\* the faces attached to face f as their parent
AttachedChildren(S, f) ==
  {S.attachments[i].face : i \in {i \in 1..Len(S.attachments) : S.attachments[i].parent = f}}

\* C24: strict foldBack policy.  While a face is attached to an unfolded
\* face f as its parent, isMoveDisabled holds of f in every direction and
\* handleToggle of f leaves faceStates, attachments and the history as they
\* are; and a toggle that folds a face finds no face attached to it.
C24_StrictFoldBack ==
  [][ /\ \A f \in Faces, d \in Directions :
           (app.faceStates[f].unfolded /\ AttachedChildren(app, f) # {}) =>
             /\ isMoveDisabled(app, f, d)
             /\ handleToggle(app, f, d).faceStates = app.faceStates
             /\ handleToggle(app, f, d).attachments = app.attachments
             /\ handleToggle(app, f, d).history = app.history
      /\ \A f \in Faces :
           ( /\ app.faceStates[f].unfolded
             /\ ~app'.faceStates[f].unfolded
             /\ Len(app'.history) = Len(app.history) + 1 )
             => AttachedChildren(app, f) = {}
    ]_vars

\* three toggles were made: the first opened a face on a pivot f attached
\* for it, and every button of f was disabled then; the second folded that
\* face again; the third, made when nothing was attached to f, folded f
C24_Witness ==
  /\ Len(app.history) = 3
  /\ \E f \in Faces :
       /\ app.history[2].faceStates[f].unfolded
       /\ AttachedChildren(app.history[2], f) # {}
       /\ \A d \in Directions : isMoveDisabled(app.history[2], f, d)
       /\ app.history[3].faceStates[f].unfolded
       /\ AttachedChildren(app.history[3], f) = {}
       /\ ~app.faceStates[f].unfolded

(***************************************************************************)
(* Legality of the valid keys.                                             *)
(***************************************************************************)
\* C25: every valid key encodes a legal net shape.  The cells a key of
\* VALID_SHAPE_CANONICALS lists are six different cells, form one
\* edge-connected shape and contain no fully occupied 2x2 block, and
\* getCanonicalShapeKey of these cells is the key itself.
C25_ValidKeysAreLegalShapes ==
  \A k \in VALID_SHAPE_CANONICALS :
    gridCells = CellsOfKey(k) =>
      /\ Cardinality(gridCells) = TOTAL_FACES
      /\ EdgeConnected(gridCells)
      /\ ~FullBlockIn(gridCells)
      /\ getCanonicalShapeKey(gridCells) = k

(***************************************************************************)
(* The root of the forest.                                                 *)
(***************************************************************************)
\* the folded faces
FoldedFaces == Faces \ UnfoldedFaces(faceStates)

\* C26: a face always stays folded.  At most five of the six faces are
\* unfolded, the parentFace links of every unfolded face lead to a folded
\* face, and once five faces are unfolded no direction is offered for the
\* face that is left.
C26_RootStaysFolded ==
  /\ UnfoldedCount(faceStates) <= TOTAL_FACES - 1
  /\ \A f \in UnfoldedFaces(faceStates) :
       Ancestors(faceStates, f) \cap FoldedFaces # {}
  /\ UnfoldedCount(faceStates) = TOTAL_FACES - 1 =>
       \A f \in Faces : getPossibleDirections(faceStates, f) = {}

\* the fifth face has been unfolded and has come to rest, and every hinge of
\* the one folded face leads onto a face whose links lead back to it
C26_Witness ==
  /\ Quiet
  /\ UnfoldedCount(faceStates) = TOTAL_FACES - 1
  /\ unfoldHistory # <<>>
  /\ faceStates[unfoldHistory[Len(unfoldHistory)]].animProgress = 1000
  /\ \A r \in FoldedFaces, d \in Directions :
       /\ HasHinge(r, d)
       /\ createsCycle(faceStates, HINGE_CONFIG[r][d].parentFaceIndex, r)

(***************************************************************************)
(* Consistency of the history.                                             *)
(***************************************************************************)
\* C27: history consistency.  unfoldHistory lists every unfolded face
\* exactly once and lists no folded face.
C27_HistoryConsistent ==
  /\ HistoryFaces(unfoldHistory) = UnfoldedFaces(faceStates)
  /\ \A i, j \in 1..Len(unfoldHistory) : unfoldHistory[i] = unfoldHistory[j] => i = j

\* an undo made with three faces unfolded has folded the last face and the
\* face attached to it; the face that is left is the one entry of the history
C27_Witness ==
  /\ lastOp.op = "undo"
  /\ lastOp.n = 3
  /\ UnfoldedCount(faceStates) = 1
  /\ Len(unfoldHistory) = 1
  /\ faceStates[unfoldHistory[1]].unfolded

(***************************************************************************)
(* Frame and effect of unfold.                                             *)
(***************************************************************************)
\* the parent stored for every unfolded face is the parent of the hinge of
\* its stored direction, the face the Pose Resolver recurses into, and it
\* shares an edge with the face on the cube
StoredParentIsHingeParent(fs) ==
  \A f \in UnfoldedFaces(fs) :
    /\ fs[f].direction \in Directions
    /\ fs[f].parentFace = HINGE_CONFIG[f][fs[f].direction].parentFaceIndex
    /\ fs[f].parentFace \notin {f, OPPOSITE_FACES[f]}
    /\ CubeAdjacent(f, fs[f].parentFace)

\* C28: frame and effect of unfold.  A step that unfolds a face (it appends
\* the face to the history) sets that face's unfolded flag, direction and
\* parentFace and leaves the state of every other face as it is; and before
\* and after every step the parent stored for an unfolded face is the parent
\* of the hinge of its stored direction, a face that shares an edge with it
\* on the cube.
C28_UnfoldFrame ==
  [][ /\ StoredParentIsHingeParent(faceStates)
      /\ StoredParentIsHingeParent(faceStates')
      /\ \A f \in Faces :
           unfoldHistory' = Append(unfoldHistory, f) =>
             /\ \A g \in Faces \ {f} : faceStates'[g] = faceStates[g]
             /\ ~faceStates[f].unfolded /\ faceStates'[f].unfolded
             /\ faceStates'[f].animProgress = faceStates[f].animProgress
    ]_vars

\* a second face has just been unfolded, in a direction other than UP, onto
\* the parent of its hinge
C28_Witness ==
  /\ lastOp.op = "unfold"
  /\ lastOp.n >= 1
  /\ faceStates[lastOp.face].unfolded
  /\ faceStates[lastOp.face].direction \in Directions \ {"UP"}
  /\ faceStates[lastOp.face].parentFace =
       HINGE_CONFIG[lastOp.face][faceStates[lastOp.face].direction].parentFaceIndex
  /\ unfoldHistory[Len(unfoldHistory)] = lastOp.face

(***************************************************************************)
(* Progress of net building.                                               *)
(***************************************************************************)
\* C29: no dead end.  While fewer than five faces are unfolded, some folded
\* face is offered a direction, and the click on it unfolds one face more;
\* unfolds alone therefore lead from every reachable state to a state with
\* five unfolded faces.
C29_NoDeadEnd ==
  UnfoldedCount(faceStates) < TOTAL_FACES - 1 =>
    \E f \in FoldedFaces :
      /\ getPossibleDirections(faceStates, f) # {}
      /\ \A d \in getPossibleDirections(faceStates, f) :
           UnfoldedFaces(arrowClick(Cur, f, d).faceStates) =
             UnfoldedFaces(faceStates) \cup {f}

\* four faces have been unfolded, the two folded faces are opposite faces of
\* the cube, so that neither has a folded neighbour, and a direction is still
\* offered for one of them
C29_Witness ==
  /\ lastOp.op = "unfold"
  /\ UnfoldedCount(faceStates) = 4
  /\ \A f \in FoldedFaces : OPPOSITE_FACES[f] \in FoldedFaces
  /\ \E f \in FoldedFaces : getPossibleDirections(faceStates, f) # {}
  /\ \E f \in FoldedFaces : getPossibleDirections(faceStates, f) = {}

(***************************************************************************)
(* Overlap freedom of the hinge model.                                     *)
(***************************************************************************)
\* five faces are unfolded and every one of them is fully open
FiveFacesOpen ==
  /\ UnfoldedCount(faceStates) = TOTAL_FACES - 1
  /\ \A f \in UnfoldedFaces(faceStates) : faceStates[f].animProgress = 1000

\* the cells of the faces resolved to `matrices`, in the grid of the plane of
\* face root: the offsets of the centres from the centre of root along the
\* in-plane axes of root, in face widths
LayoutAround(matrices, root) ==
  LET axes == getPlaneAxesFromMatrix(matrices[root])
      offset(f) == VecAdd(matrices[f].t, Negate(matrices[root].t))
  IN  {<<Dot(offset(f), axes.right) \div 2, Dot(offset(f), axes.up) \div 2>> : f \in Faces}

\* C30: overlap freedom.  When five faces are unfolded and fully open, every
\* face has the normal of the folded root face and its centre in the plane of
\* the root, a whole number of face widths from the centre of the root along
\* either in-plane axis; the six cells are different and form one
\* edge-connected shape.
C30_OverlapFreedom ==
  FiveFacesOpen =>
    \A root \in FoldedFaces :
      LET axes == getPlaneAxesFromMatrix(worldMatrices[root])
          offset(f) == VecAdd(worldMatrices[f].t, Negate(worldMatrices[root].t))
      IN  /\ \A f \in Faces :
               /\ getNormalFromMatrix(worldMatrices[f]) = axes.normal
               /\ Dot(offset(f), axes.normal) = 0
               /\ Dot(offset(f), axes.right) % 2 = 0
               /\ Dot(offset(f), axes.up) % 2 = 0
          /\ Cardinality(LayoutAround(worldMatrices, root)) = TOTAL_FACES
          /\ EdgeConnected(LayoutAround(worldMatrices, root))

\* the fifth face has come to rest fully open, at the end of a chain of three
\* unfolded faces, and the six faces lie on six cells
C30_Witness ==
  /\ FiveFacesOpen
  /\ Quiet
  /\ lastOp.op = "frame"
  /\ \E f \in UnfoldedFaces(faceStates) :
       Cardinality(Ancestors(faceStates, f) \cap UnfoldedFaces(faceStates)) >= 2
  /\ \A root \in FoldedFaces :
       Cardinality(LayoutAround(worldMatrices, root)) = TOTAL_FACES

====
